---- MODULE Spec2Model ----
(***************************************************************************)
(* Model of the sysdiagram decoders (src/src/dds.rs, src/src/mdtdb.rs,     *)
(* src/src/dsref.rs, src/src/dtyp.rs, src/src/parser.rs) and of the site   *)
(* orchestrator SysDiagramFile::schema_form (src/src/lib.rs).              *)
(*                                                                         *)
(* Inputs are sequences of bytes (0..255).  A decoder is an operator from  *)
(* a byte sequence to a parse outcome, threaded through the remaining      *)
(* input exactly like the nom combinators of the source.  32-bit unsigned  *)
(* values are pairs <<hi, lo>> of 16-bit halves, because the full u32      *)
(* range is needed (flag words, wrap-around) and does not fit a checker    *)
(* integer; signed 32-bit values are integers.                             *)
(***************************************************************************)
EXTENDS Integers, Sequences, FiniteSets, TLC

VARIABLES
    input,            \* byte sequence handed to a decoder
    decoder,          \* name of the decoder that ran on input ("none" before)
    result,           \* outcome of that decoder
    overflow_checks,  \* TRUE: the build panics on integer overflow (debug)
    has_f, has_o,     \* the container has an "/f" resp. "/o" stream
    form_ok,          \* root_form() can decode the "/f" stream
    sites,            \* ordered site list of the form (form.site_iter())
    iter,             \* number of sites the iterator has yielded
    buf,              \* the payload buffer shared by all loop iterations
    controls,         \* accumulated (SiteInfo, Control) sequence
    pc,               \* position in schema_form
    ret               \* what schema_form returned / how it ended

vars == <<input, decoder, result, overflow_checks, has_f, has_o, form_ok,
          sites, iter, buf, controls, pc, ret>>

harnessVars == <<input, decoder, result, overflow_checks>>

formVars == <<has_f, has_o, form_ok, sites, iter, buf, controls, pc, ret>>

(***************************************************************************)
(* Parse outcomes.  A nom IResult is Ok((rest, value)) or Err; a panic     *)
(* (assert_eq!, todo!, unimplemented!, arithmetic overflow in a checked    *)
(* build) is a third outcome that is not a value returned to the caller.   *)
(***************************************************************************)
Ok(rest, val) == [ok |-> TRUE, rest |-> rest, val |-> val, err |-> "Ok"]

Fail(kind) == [ok |-> FALSE, rest |-> <<>>, val |-> <<>>, err |-> kind]

PanicKinds == {"Panic(assert_eq)", "Panic(todo)", "Panic(overflow)",
               "Panic(unimplemented)", "Panic(unwrap)"}

IsPanic(r) == r.err \in PanicKinds

IsErr(r) == ~r.ok /\ ~IsPanic(r)

Drop(i, n) == SubSeq(i, n + 1, Len(i))

(***************************************************************************)
(* Sequencing.  A decoder body "let (input, a) = p(input)?; let (input, b) *)
(* = q(input)?; ..." is a chain of steps over one outcome whose value is   *)
(* the sequence of the fields read so far: Start, then one Then (or        *)
(* ThenWith, when the step uses an earlier field) per statement.  The      *)
(* first failing step ends the chain with its error.                       *)
(***************************************************************************)
Start(i) == Ok(i, <<>>)

\* the `?` after a step: keep its value, or return its error
Keep(fields, r) == IF ~r.ok THEN r ELSE Ok(r.rest, Append(fields, r.val))

Then(s, P(_)) == IF ~s.ok THEN s ELSE Keep(s.val, P(s.rest))

ThenWith(s, P(_, _)) == IF ~s.ok THEN s ELSE Keep(s.val, P(s.val, s.rest))

\* nom map(parser, f)
Map(r, F(_)) == IF ~r.ok THEN r ELSE Ok(r.rest, F(r.val))

\* nom map_opt(parser, f): f yields <<v>> (Some) or <<>> (None)
MapOpt(r, F(_)) ==
    IF ~r.ok THEN r
    ELSE IF F(r.val) = <<>> THEN Fail("Error(MapOpt)")
    ELSE Ok(r.rest, F(r.val)[1])

\* nom map_res(parser, f): f yields <<v>> (Ok) or <<>> (Err)
MapRes(r, F(_)) ==
    IF ~r.ok THEN r
    ELSE IF F(r.val) = <<>> THEN Fail("Error(MapRes)")
    ELSE Ok(r.rest, F(r.val)[1])

\* nom verify(parser, |x| *x == expected)
Verify(r, expected) ==
    IF ~r.ok \/ r.val = expected THEN r ELSE Fail("Error(Verify)")

\* assert_eq!(value, expected) on a decoded value
AssertEq(r, expected) ==
    IF ~r.ok \/ r.val = expected THEN r ELSE Fail("Panic(assert_eq)")

\* Some(v)
Some(v) == <<v>>

Second(fields) == fields[2]

Last(fields) == fields[Len(fields)]

(***************************************************************************)
(* Primitive decoders (nom::number::complete, nom::bytes::complete).       *)
(***************************************************************************)
Take(n, i) ==
    IF Len(i) < n THEN Fail("Error(Eof)") ELSE Ok(Drop(i, n), SubSeq(i, 1, n))

\* a step that ends the input and keeps none of it
Rest_Discard(i) == Ok(<<>>, <<>>)

Rest(i) == Ok(<<>>, i)

Tag(t, i) ==
    IF Len(i) >= Len(t) /\ SubSeq(i, 1, Len(t)) = t
    THEN Ok(Drop(i, Len(t)), t)
    ELSE Fail("Error(Tag)")

LeU8(i) ==
    IF Len(i) < 1 THEN Fail("Error(Eof)") ELSE Ok(Drop(i, 1), i[1])

LeU16(i) ==
    IF Len(i) < 2 THEN Fail("Error(Eof)") ELSE Ok(Drop(i, 2), i[1] + 256 * i[2])

LeU32(i) ==
    IF Len(i) < 4 THEN Fail("Error(Eof)")
    ELSE Ok(Drop(i, 4), <<i[3] + 256 * i[4], i[1] + 256 * i[2]>>)

LeI32(i) ==
    IF Len(i) < 4 THEN Fail("Error(Eof)")
    ELSE Ok(Drop(i, 4),
            IF i[4] >= 128
            THEN (i[3] + 256 * i[4] - 65536) * 65536 + i[1] + 256 * i[2]
            ELSE (i[3] + 256 * i[4]) * 65536 + i[1] + 256 * i[2])

LeU64(i) ==
    IF Len(i) < 8 THEN Fail("Error(Eof)")
    ELSE Ok(Drop(i, 8), <<i[7] + 256 * i[8], i[5] + 256 * i[6],
                          i[3] + 256 * i[4], i[1] + 256 * i[2]>>)

\* u32::to_le_bytes
ToLeBytes(w) == <<w[2] % 256, w[2] \div 256, w[1] % 256, w[1] \div 256>>

\* u32 -> usize, for the values that can be compared with an input length
FitsUsize(w) == w[1] < 32768

ToUsize(w) == w[1] * 65536 + w[2]

\* nom take(n) with a u32 count
TakeU32(w, i) ==
    IF ~FitsUsize(w) THEN Fail("Error(Eof)") ELSE Take(ToUsize(w), i)

\* pair(le_u32, le_u32)
LeU32_2(i) == Then(Then(Start(i), LeU32), LeU32)

\* pair(le_u16, le_u16)
PairU16(i) == Then(Then(Start(i), LeU16), LeU16)

\* nom count(le_u32, n), continuing the chain s
RECURSIVE CountU32(_, _)
CountU32(n, s) ==
    IF n = 0 \/ ~s.ok THEN s ELSE CountU32(n - 1, Then(s, LeU32))

\* nom count(le_u32, n) with a u32 count: a count beyond the input runs
\* until the input ends
CountU32W(w, i) ==
    CountU32(IF FitsUsize(w) THEN ToUsize(w) ELSE Len(i) \div 4 + 1, Start(i))

\* length_count(le_u32, le_u32)
LengthCountU32(i) ==
    Map(ThenWith(Then(Start(i), LeU32), LAMBDA f, x : CountU32W(f[1], x)),
        Second)

\* the outcome of a decoder that ran on a prefix, resumed after the prefix
Resume(r, rest) == IF ~r.ok THEN r ELSE Ok(rest, r.val)

\* nom length_value(le_u32, P): the length, then P on exactly that many bytes
LengthValue(i, P(_)) ==
    Map(ThenWith(Then(Start(i), LeU32), LAMBDA f, x :
            IF ~FitsUsize(f[1]) \/ ToUsize(f[1]) > Len(x)
            THEN Fail("Incomplete")
            ELSE Resume(P(SubSeq(x, 1, ToUsize(f[1]))),
                        Drop(x, ToUsize(f[1])))),
        Second)

(***************************************************************************)
(* Value types of the form layer (ms_oforms), as the decoders use them.    *)
(***************************************************************************)
SizeParse(i) ==
    Map(LeU32_2(i), LAMBDA f : [width |-> f[1], height |-> f[2]])

PositionParse(i) ==
    Map(Then(Then(Start(i), LeI32), LeI32),
        LAMBDA f : [left |-> f[1], top |-> f[2]])

OleColorKinds == {0, 1, 2, 128}

\* OleColor from a u32: the top byte selects the kind
OleColorFromU32(w) ==
    IF (w[1] \div 256) \in OleColorKinds
    THEN <<[kind |-> w[1] \div 256, rgb |-> <<w[1] % 256, w[2]>>]>>
    ELSE <<>>

parse_ole_color(i) == MapOpt(LeU32(i), OleColorFromU32)

\* the font descriptor of the form layer: version byte 1, charset, flags,
\* weight, height, length-prefixed face name
parse_std_font(i) ==
    Map(ThenWith(
        Then(
        Then(
        Then(
        Then(
        Then(
        Then(Start(i),
            LAMBDA x : Tag(<<1>>, x)),           \* 1 version
            LeU16),                              \* 2 charset
            LeU8),                               \* 3 flags
            LeU16),                              \* 4 weight
            LeU32),                              \* 5 height
            LeU8),                               \* 6 face_len
            LAMBDA f, x : Take(f[6], x)),        \* 7 face
        LAMBDA f : [charset |-> f[2], flags |-> f[3], weight |-> f[4],
                    height |-> f[5], font_face |-> f[7]])

(***************************************************************************)
(* Strings (src/src/parser.rs).  A decoded string is the sequence of its   *)
(* UTF-16 code units.                                                      *)
(***************************************************************************)
IsHighSurrogate(u) == u >= 55296 /\ u <= 56319

IsLowSurrogate(u) == u >= 56320 /\ u <= 57343

RECURSIVE WellPaired(_)
WellPaired(units) ==
    IF units = <<>> THEN TRUE
    ELSE IF IsLowSurrogate(units[1]) THEN FALSE
    ELSE IF IsHighSurrogate(units[1])
         THEN Len(units) >= 2 /\ IsLowSurrogate(units[2])
              /\ WellPaired(Drop(units, 2))
    ELSE WellPaired(Drop(units, 1))

\* the 16-bit little-endian units of an even-length byte sequence
Units(bytes) ==
    [k \in 1..(Len(bytes) \div 2) |-> bytes[2 * k - 1] + 256 * bytes[2 * k]]

\* UTF_16LE.decode(bytes, DecoderTrap::Strict): <<units>> or <<>> on error
decode_utf16(bytes) ==
    IF Len(bytes) % 2 = 0 /\ WellPaired(Units(bytes)) THEN <<Units(bytes)>>
    ELSE <<>>

\* len - 2 on a u32: <<w>>, or <<>> when the subtraction underflows
Sub2(w) ==
    IF w[2] >= 2 THEN <<<<w[1], w[2] - 2>>>>
    ELSE IF w[1] >= 1 THEN <<<<w[1] - 1, w[2] + 65534>>>>
    ELSE <<>>

\* the value a wrapping (unchecked) build computes for len - 2 when len < 2
Sub2Wrapped(w) == <<65535, w[2] + 65534>>

\* len - 2 as the build computes it once the overflow check has passed
Sub2Value(w) == IF Sub2(w) = <<>> THEN Sub2Wrapped(w) ELSE Sub2(w)[1]

\* len * 2 on a u32: <<w>>, or <<>> when the product overflows
Mul2(w) ==
    IF w[1] >= 32768 THEN <<>>
    ELSE <<<<w[1] * 2 + (w[2] * 2) \div 65536, (w[2] * 2) % 65536>>>>

\* the value a wrapping build computes for len * 2
Mul2Wrapped(w) ==
    <<(w[1] * 2 + (w[2] * 2) \div 65536) % 65536, (w[2] * 2) % 65536>>

\* map_res(take(n), decode_utf16) followed by tag([0, 0])
TakeStringNt(n, i) ==
    Map(Then(
        Then(Start(i),
            LAMBDA x : MapRes(TakeU32(n, x), decode_utf16)),   \* 1 string
            LAMBDA x : Tag(<<0, 0>>, x)),                      \* 2 terminator
        LAMBDA f : f[1])

parse_u32_bytes_wstring_nt(i) ==
    Map(ThenWith(
        Then(Start(i),
            LeU32),                                            \* 1 len
            LAMBDA f, x :
                IF Sub2(f[1]) = <<>> /\ overflow_checks
                THEN Fail("Panic(overflow)")
                ELSE TakeStringNt(Sub2Value(f[1]), x)),        \* 2 string
        Second)

parse_u32_wstring_nt(i) ==
    Map(ThenWith(
        Then(Start(i),
            LeU32),                                            \* 1 len
            LAMBDA f, x :
                IF overflow_checks
                   /\ (Mul2(f[1]) = <<>> \/ Sub2(Mul2Wrapped(f[1])) = <<>>)
                THEN Fail("Panic(overflow)")
                ELSE TakeStringNt(Sub2Value(Mul2Wrapped(f[1])), x)),
        Second)

parse_u16_wstring(i) ==
    Map(ThenWith(
        Then(Start(i),
            LeU16),                                            \* 1 len
            LAMBDA f, x : MapRes(Take(f[1] * 2, x), decode_utf16)),
        Second)

\* many_till(le_u16, tag([0, 0])): the number of bytes recognized, terminator
\* included, or -1 when the input ends before a terminator
RECURSIVE ManyTillNul(_, _)
ManyTillNul(i, p) ==
    IF Len(i) >= p + 2 /\ i[p + 1] = 0 /\ i[p + 2] = 0 THEN p + 2
    ELSE IF Len(i) < p + 2 THEN -1
    ELSE ManyTillNul(i, p + 2)

\* recognize(many_till(le_u16, tag([0, 0])))
RecognizeManyTill(i) ==
    IF ManyTillNul(i, 0) < 0 THEN Fail("Error(Eof)")
    ELSE Take(ManyTillNul(i, 0), i)

\* UTF_16LE.decode(&x[..(x.len() - 2)], DecoderTrap::Strict)
DecodeWithoutNul(x) == decode_utf16(SubSeq(x, 1, Len(x) - 2))

parse_wstring_nt(i) == MapRes(RecognizeManyTill(i), DecodeWithoutNul)

\* length_value(le_u32, parse_wstring_nt)
LengthValueWString(i) == LengthValue(i, parse_wstring_nt)

(***************************************************************************)
(* Relationship captions (src/src/parser.rs).  A &str is the sequence of   *)
(* its UTF-8 bytes; tag and take_until compare bytes.                      *)
(***************************************************************************)
\* the first index at or after k where t occurs in i, 0 when there is none
RECURSIVE FindSub(_, _, _)
FindSub(t, i, k) ==
    IF k + Len(t) - 1 > Len(i) THEN 0
    ELSE IF SubSeq(i, k, k + Len(t) - 1) = t THEN k
    ELSE FindSub(t, i, k + 1)

\* a scan that returns the whole input when the pattern does not occur
TakeUntil_Rest(t, i) ==
    IF FindSub(t, i, 1) = 0 THEN Ok(<<>>, i)
    ELSE Ok(Drop(i, FindSub(t, i, 1) - 1), SubSeq(i, 1, FindSub(t, i, 1) - 1))

\* nom::bytes::complete::take_until(t): the text before the first t; the
\* remaining input starts at t
TakeUntil(t, i) ==
    IF FindSub(t, i, 1) = 0 THEN Fail("Error(TakeUntil)")
    ELSE Ok(Drop(i, FindSub(t, i, 1) - 1), SubSeq(i, 1, FindSub(t, i, 1) - 1))

parse_relationship(i) ==
    Map(Then(
        Then(
        Then(
        Then(
        Then(
        Then(Start(i),
            \* "Relationship '"
            LAMBDA x : Tag(<<82, 101, 108, 97, 116, 105, 111, 110, 115, 104,
                             105, 112, 32, 39>>, x)),
            LAMBDA x : TakeUntil(<<39>>, x)),                \* 2 name
            \* "' between '"
            LAMBDA x : Tag(<<39, 32, 98, 101, 116, 119, 101, 101, 110, 32,
                             39>>, x)),
            LAMBDA x : TakeUntil(<<39>>, x)),                \* 4 from
            \* "' and '"
            LAMBDA x : Tag(<<39, 32, 97, 110, 100, 32, 39>>, x)),
            LAMBDA x : TakeUntil(<<39>>, x)),                \* 6 to
        LAMBDA f : <<f[2], f[4], f[6]>>)

(***************************************************************************)
(* Polyline control (src/src/dds.rs) and its earlier form in parser.rs.    *)
(***************************************************************************)
\* a conversion that falls back to Many (0) for a value outside the set
EndTypeFromU32_Default(w) ==
    IF w[1] = 0 /\ (w[2] \in 0..18 \/ w[2] = 99) THEN <<w[2]>> ELSE <<0>>

\* DdsPolylineEndType::from_u32: the closed set 0..18 and 99
EndTypeFromU32(w) ==
    IF w[1] = 0 /\ (w[2] \in 0..18 \/ w[2] = 99) THEN <<w[2]>> ELSE <<>>

ParseEndType(i) == MapOpt(LeU32(i), EndTypeFromU32)

parse_label_ref(i) ==
    Map(Then(
        Then(
        Then(
        Then(Start(i),
            LeU32),                              \* 1 id
            LeU32),                              \* 2 x2
            PositionParse),                      \* 3 pos
            SizeParse),                          \* 4 size
        LAMBDA f : [id |-> f[1], x2 |-> f[2], pos |-> f[3], size |-> f[4]])

\* nom count(Position::parse, n), continuing the chain s
RECURSIVE CountPosition(_, _)
CountPosition(n, s) ==
    IF n = 0 \/ ~s.ok THEN s ELSE CountPosition(n - 1, Then(s, PositionParse))

\* nom count(parse_label_ref, n), continuing the chain s
RECURSIVE CountLabelRef(_, _)
CountLabelRef(n, s) ==
    IF n = 0 \/ ~s.ok THEN s
    ELSE CountLabelRef(n - 1, Then(s, parse_label_ref))

\* length_count(le_u32, parse_label_ref)
LengthCountLabelRef(i) ==
    Map(ThenWith(
        Then(Start(i),
            LeU32),                              \* 1 length
            LAMBDA f, x :
                CountLabelRef(IF FitsUsize(f[1]) THEN ToUsize(f[1])
                              ELSE Len(x) \div 24 + 1, Start(x))),
        Second)

\* a decoder that takes the count as the index of the last point
PolylinePositions_OffByOne(pos_count, i) ==
    CountPosition(IF pos_count > 0 THEN pos_count - 1 ELSE 0, Start(i))

\* count(Position::parse, usize::from(pos_count)), dds.rs:206 and parser.rs:116
PolylinePositions(pos_count, i) == CountPosition(pos_count, Start(i))

parse_polyline(i) ==
    Map(Then(
        Then(
        Then(
        Then(
        Then(
        Then(
        Then(
        ThenWith(
        Then(
        Then(Start(i),
            LeU16),                                          \* 1 pos_count
            LeU16),                                          \* 2 d1
            LAMBDA f, x : PolylinePositions(f[1], x)),       \* 3 positions
            ParseEndType),                                   \* 4 end_type_src
            ParseEndType),                                   \* 5 end_type_dest
            parse_ole_color),                                \* 6 color
            LAMBDA x : Take(16, x)),                         \* 7 x1
            LengthCountLabelRef),                            \* 8 labels
            LeU8),                                           \* 9 d7
            Rest),                                           \* 10 rest
        LAMBDA f : [d1 |-> f[2], positions |-> f[3], end_type_src |-> f[4],
                    end_type_dest |-> f[5], color |-> f[6], x1 |-> f[7],
                    labels |-> f[8], d7 |-> f[9], rest |-> f[10]])

\* the earlier decoder kept in parser.rs: count, word, points, rest
parser_parse_polyline(i) ==
    Map(Then(
        ThenWith(
        Then(
        Then(Start(i),
            LeU16),                                          \* 1 pos_count
            LeU16),                                          \* 2 d1
            LAMBDA f, x : PolylinePositions(f[1], x)),       \* 3 positions
            Rest),                                           \* 4 rest
        LAMBDA f : [d1 |-> f[2], positions |-> f[3], rest |-> f[4]])

\* generate_svg, the Polyline arm: positions.first().unwrap() and
\* positions.last().unwrap() (src/src/bin/sysdiagram.rs:338-339)
RenderEndpoints(line) ==
    IF Len(line.positions) = 0 THEN Fail("Panic(unwrap)")
    ELSE Ok(<<>>, <<line.positions[1], line.positions[Len(line.positions)]>>)

(***************************************************************************)
(* Label control (src/src/dds.rs).                                         *)
(***************************************************************************)
\* LabelJustification::from_u16
JustificationFromU16(v) == IF v \in 0..2 THEN <<v>> ELSE <<>>

\* a conversion that drops the bits it does not know (from_bits_truncate)
LabelFlagsFromBits_Truncate(v) == <<v % 64>>

\* LabelFlags::from_bits: six flags, mask 0b111111
LabelFlagsFromBits(v) == IF v \div 64 = 0 THEN <<v>> ELSE <<>>

parse_label(i) ==
    Map(Then(
        Then(
        Then(
        Then(
        Then(
        Then(
        Then(
        Then(
        Then(
        Then(Start(i),
            LeU32),                                             \* 1 d1
            SizeParse),                                         \* 2 size
            LAMBDA x : Take(6, x)),                             \* 3 d2
            parse_ole_color),                                   \* 4 back_color
            parse_ole_color),                                   \* 5 fore_color
            LAMBDA x : MapOpt(LeU16(x), JustificationFromU16)), \* 6
            LeU16),                                             \* 7 d3
            LAMBDA x : MapOpt(LeU16(x), LabelFlagsFromBits)),   \* 8 flags
            parse_std_font),                                    \* 9 font
            parse_u16_wstring),                                 \* 10 text
        LAMBDA f : [d1 |-> f[1], size |-> f[2], d2 |-> f[3],
                    back_color |-> f[4], fore_color |-> f[5],
                    justification |-> f[6], d3 |-> f[7], flags |-> f[8],
                    font |-> f[9], text |-> f[10]])

(***************************************************************************)
(* Variant (src/src/dtyp.rs).                                              *)
(***************************************************************************)
VT_BSTR == 8

VT_BOOL == 11

\* VarType::from_bits: every bit of the tag is a bit of some VARENUM value
VarTypeFromBits(tag) ==
    IF (tag \div 128) % 32 = 0 /\ tag \div 32768 = 0 THEN <<tag>> ELSE <<>>

\* a conversion that takes every word but 0 for true
BoolFromU16_Coerce(v) ==
    IF v = 0 THEN <<[tag |-> "Bool", v |-> <<0>>]>>
    ELSE <<[tag |-> "Bool", v |-> <<1>>]>>

\* VARIANT_BOOL: 0 is false, 0xFFFF is true, nothing else is a BOOL
BoolFromU16(v) ==
    IF v = 0 THEN <<[tag |-> "Bool", v |-> <<0>>]>>
    ELSE IF v = 65535 THEN <<[tag |-> "Bool", v |-> <<1>>]>>
    ELSE <<>>

\* Variant::BStr(s)
BStr(s) == [tag |-> "BStr", v |-> s]

parse_variant(i) ==
    Map(ThenWith(
        Then(Start(i),
            LAMBDA x : MapOpt(LeU16(x), VarTypeFromBits)),      \* 1 vt
            LAMBDA f, x :
                IF f[1] = VT_BSTR
                THEN Map(parse_u32_bytes_wstring_nt(x), BStr)
                ELSE IF f[1] = VT_BOOL
                THEN MapOpt(LeU16(x), BoolFromU16)
                ELSE Fail("Panic(todo)")),                      \* 2 value
        Second)

(***************************************************************************)
(* Data source reference tree (src/src/dsref.rs).                          *)
(***************************************************************************)
parse_guid(i) ==
    Map(Then(
        Then(
        Then(Start(i),
            LeU32),                              \* 1 d1
            PairU16),                            \* 2 (d2, d3)
            LAMBDA x : Take(8, x)),              \* 3 d4
        LAMBDA f : <<f[1], f[2][1], f[2][2], f[3]>>)

\* the DsRefType bits the node decoder tests (single bits, as <<hi, lo>>)
EXTENDED == <<0, 16384>>

HASFIRSTCHILD == <<1, 0>>

HASNEXTSIBLING == <<2, 0>>

HASNAME == <<4, 0>>

HASMONIKER == <<8, 0>>

HASOWNER == <<32, 0>>

HASPROP == <<64, 0>>

\* a conversion that drops the bits no flag names
DsRefTypeFromBits_Truncate(w) ==
    <<<<w[1], w[2] - 8 * ((w[2] \div 8) % 2) - 32 * ((w[2] \div 32) % 8)>>>>

\* DsRefType::from_bits: the union of the named flags is 0xFFFFFF17
DsRefTypeFromBits(w) ==
    IF (w[2] \div 8) % 2 = 0 /\ (w[2] \div 32) % 8 = 0 THEN <<w>> ELSE <<>>

\* flags.contains(f) for a single-bit flag f
Contains(flags, f) ==
    IF f[1] # 0 THEN (flags[1] \div f[1]) % 2 = 1
    ELSE (flags[2] \div f[2]) % 2 = 1

\* a map that keeps the first value of a key
Insert_KeepFirst(prop_map, property, value) ==
    prop_map @@ (property :> value)

\* prop_map.insert(property, value): a later value replaces an earlier one
Insert(prop_map, property, value) == (property :> value) @@ prop_map

\* one iteration of the property loop: a GUID, then its variant
PropertyEntry(i) == Then(Then(Start(i), parse_guid), parse_variant)

\* the `?` of the iteration, then prop_map.insert(property, value)
InsertEntry(prop_map, r) ==
    IF ~r.ok THEN r ELSE Ok(r.rest, Insert(prop_map, r.val[1], r.val[2]))

\* for _ in 0..prop_count { ... }: s carries the map built so far
RECURSIVE PropertyLoop(_, _)
PropertyLoop(n, s) ==
    IF n = 0 \/ ~s.ok THEN s
    ELSE PropertyLoop(n - 1, InsertEntry(s.val, PropertyEntry(s.rest)))

parse_dsref_properties(i) ==
    Map(ThenWith(
        Then(Start(i),
            LeU32),                              \* 1 prop_count
            LAMBDA f, x :
                PropertyLoop(IF FitsUsize(f[1]) THEN ToUsize(f[1])
                             ELSE Len(x) + 1, Start(x))),
        Second)

\* cond(b, parse_guid): an Option, <<v>> or <<>>
CondGuid(b, i) == IF ~b THEN Ok(i, <<>>) ELSE Map(parse_guid(i), Some)

\* a decoder that reads the string whether or not the flag is set
CondString_Unconditional(b, i) == Map(parse_u32_bytes_wstring_nt(i), Some)

\* cond(b, parse_u32_bytes_wstring_nt)
CondString(b, i) ==
    IF ~b THEN Ok(i, <<>>) ELSE Map(parse_u32_bytes_wstring_nt(i), Some)

\* cond(b, parse_dsref_properties)
CondProperties(b, i) ==
    IF ~b THEN Ok(i, <<>>) ELSE Map(parse_dsref_properties(i), Some)

\* dsref.rs:283, the loop condition before the first child
HasFirst(flags) == Contains(flags, HASFIRSTCHILD)

\* a loop that stops after every child
HasNextAfter_Never(entry) == FALSE

\* dsref.rs:287, the loop condition after a child was decoded
HasNextAfter(entry) == Contains(entry.flags, HASNEXTSIBLING)

\* the value of `hasnext` at the loop head: set from the parent before the
\* first child, from the child just pushed afterwards
HasNext(first, nodes) ==
    IF nodes = <<>> THEN first ELSE HasNextAfter(Last(nodes))

RECURSIVE parse_dsref_node(_)
RECURSIVE ChildLoop(_, _)

\* dsref.rs:285-290: while hasnext { parse a node, push it, advance };
\* s carries the children pushed so far
ChildLoop(first, s) ==
    IF ~s.ok THEN s
    ELSE IF ~HasNext(first, s.val) THEN s
    ELSE ChildLoop(first, Then(s, parse_dsref_node))

\* a decoder that reads the property map before the child chain
parse_dsref_node_PropertiesFirst(i) ==
    Map(ThenWith(
        ThenWith(
        ThenWith(
        ThenWith(
        ThenWith(
        Then(Start(i),
            LAMBDA x : MapOpt(LeU32(x), DsRefTypeFromBits)),
            LAMBDA f, x : CondGuid(Contains(f[1], EXTENDED), x)),
            LAMBDA f, x : CondString(Contains(f[1], HASNAME), x)),
            LAMBDA f, x : CondString(Contains(f[1], HASOWNER), x)),
            LAMBDA f, x : CondProperties(Contains(f[1], HASPROP), x)),
            LAMBDA f, x : ChildLoop(HasFirst(f[1]), Start(x))),
        LAMBDA f : [flags |-> f[1], extended_type |-> f[2], name |-> f[3],
                    owner |-> f[4], children |-> f[6], properties |-> f[5]])

parse_dsref_node(i) ==
    Map(ThenWith(
        ThenWith(
        ThenWith(
        ThenWith(
        ThenWith(
        Then(Start(i),
            LAMBDA x : MapOpt(LeU32(x), DsRefTypeFromBits)),         \* 1 flags
            LAMBDA f, x : CondGuid(Contains(f[1], EXTENDED), x)),    \* 2
            LAMBDA f, x : CondString(Contains(f[1], HASNAME), x)),   \* 3 name
            LAMBDA f, x : CondString(Contains(f[1], HASOWNER), x)),  \* 4 owner
            LAMBDA f, x : ChildLoop(HasFirst(f[1]), Start(x))),      \* 5
            LAMBDA f, x : CondProperties(Contains(f[1], HASPROP), x)),
        LAMBDA f : [flags |-> f[1], extended_type |-> f[2], name |-> f[3],
                    owner |-> f[4], children |-> f[5], properties |-> f[6]])

\* u64 arithmetic: a u64 is <<l3, l2, l1, l0>>, four 16-bit limbs, the most
\* significant first, as le_u64 returns it
WINDOWS_TICK == 10000000

\* 11644473600 = 0x2_B610_9100
SEC_TO_UNIX_EPOCH == <<0, 2, 46608, 37120>>

\* the sixteen hexadecimal digits of a u64, the most significant first
Nibbles(w) ==
    [k \in 1..16 |-> (w[(k + 3) \div 4] \div (16 ^ (3 - ((k - 1) % 4)))) % 16]

FromNibbles(n) ==
    [k \in 1..4 |-> 4096 * n[4 * k - 3] + 256 * n[4 * k - 2]
                    + 16 * n[4 * k - 1] + n[4 * k]]

\* long division of a digit sequence by d: r is the running remainder, q
\* the quotient digits so far
RECURSIVE DivDigits(_, _, _, _)
DivDigits(digits, d, r, q) ==
    IF digits = <<>> THEN q
    ELSE DivDigits(Tail(digits), d, (16 * r + digits[1]) % d,
                   Append(q, (16 * r + digits[1]) \div d))

\* a / d on u64, d below 2^27
Div64(w, d) == FromNibbles(DivDigits(Nibbles(w), d, 0, <<>>))

\* a - b on u64, limb k downwards: the wrapped difference and the borrow
\* out of the top limb
RECURSIVE SubLimbs(_, _, _, _, _)
SubLimbs(a, b, k, borrow, acc) ==
    IF k = 0 THEN [val |-> acc, borrow |-> borrow]
    ELSE SubLimbs(a, b, k - 1,
                  IF a[k] - b[k] - borrow < 0 THEN 1 ELSE 0,
                  <<(a[k] - b[k] - borrow + 65536) % 65536>> \o acc)

\* windows_ticks / WINDOWS_TICK - SEC_TO_UNIX_EPOCH: the subtraction
\* underflows when the quotient is below the constant; a build with
\* overflow checks panics, any other build wraps
windows_tick_to_unix_seconds(windows_ticks) ==
    IF SubLimbs(Div64(windows_ticks, WINDOWS_TICK), SEC_TO_UNIX_EPOCH,
                4, 0, <<>>).borrow = 1 /\ overflow_checks
    THEN Fail("Panic(overflow)")
    ELSE Ok(<<>>, SubLimbs(Div64(windows_ticks, WINDOWS_TICK),
                           SEC_TO_UNIX_EPOCH, 4, 0, <<>>).val)

\* DSRefSchemaContents::get_time
get_time(self) == windows_tick_to_unix_seconds(self.timestamp)

parse_dsref_schema_contents(i) ==
    Map(Then(
        Then(
        Then(
        Then(
        Then(
        Then(
        Then(Start(i),
            parse_guid),                         \* 1 clsid
            LAMBDA x : Ok(x, Len(x))),           \* 2 len = input.len()
            LAMBDA x : Tag(<<0, 0>>, x)),        \* 3 version
            LeU16),                              \* 4 a
            LeU64),                              \* 5 timestamp
            LeU32),                              \* 6 b
            parse_dsref_node),                   \* 7 root_node
        LAMBDA f : [clsid |-> f[1], len |-> f[2], a |-> f[4],
                    timestamp |-> f[5], b |-> f[6], root_node |-> f[7]])

(***************************************************************************)
(* Grid control (src/src/mdtdb.rs) and its earlier form in parser.rs.      *)
(***************************************************************************)
\* a decoder that returns the values that are there when fewer remain
ColumnWidths_Lenient(v2_count, i) ==
    CountU32(IF FitsUsize(v2_count) /\ ToUsize(v2_count) <= Len(i) \div 4
             THEN ToUsize(v2_count) ELSE Len(i) \div 4, Start(i))

\* count(le_u32, v2_count as usize), mdtdb.rs:165
ColumnWidths(v2_count, i) == CountU32W(v2_count, i)

parse_sch_grid_inner3(i) ==
    Map(ThenWith(
        Then(Start(i),
            LeU32_2),                                    \* 1 (v2_count, v1)
            LAMBDA f, x : ColumnWidths(f[1][1], x)),     \* 2 v2
        LAMBDA f : [v1 |-> f[1][2], v2 |-> f[2]])

parse_sch_grid_inner4(i) ==
    Map(Then(
        Then(
        Then(
        Then(
        Then(
        Then(Start(i),
            LeU32_2),                            \* 1 v0
            SizeParse),                          \* 2 v1
            LeU32),                              \* 3 v2
            LeU32),                              \* 4 count
            LeU32),                              \* 5 shown
            parse_sch_grid_inner3),              \* 6 v5
        LAMBDA f : [v0 |-> f[1], v1 |-> f[2], v2 |-> f[3], count |-> f[4],
                    shown |-> f[5], v5 |-> f[6]])

OLE_CONTROL_MAGIC == <<4660, 17185>>

FRAME_MAGIC == <<4660, 22136>>

\* tag(OLE_CONTROL_MAGIC.to_le_bytes()), mdtdb.rs:176
ControlMagicGuard(i) == Tag(ToLeBytes(OLE_CONTROL_MAGIC), i)

\* tag(u32::to_le_bytes(0x1234_5678)), mdtdb.rs:210
FrameMagicGuard(i) == Tag(ToLeBytes(FRAME_MAGIC), i)

\* tag(u32::to_le_bytes(0x1234_5678)), mdtdb.rs:202
DataSourceMagicGuard(i) == Tag(ToLeBytes(FRAME_MAGIC), i)

\* pair(le_u16, le_u16) followed by assert_eq!((v_minor, v_major), expected)
VersionGuard(expected, i) == AssertEq(PairU16(i), expected)

parse_ole_control_extent(i) ==
    Map(Then(
        Then(
        Then(Start(i),
            ControlMagicGuard),                          \* 1 magic
            LAMBDA x : VersionGuard(<<8, 0>>, x)),       \* 2 version
            SizeParse),                                  \* 3 size
        Last)

\* a decoder that hands the first string to table and the second to schema
inner_parse_data_source_TableFirst(i) ==
    Map(Then(
        Then(
        Then(
        Then(
        Then(Start(i),
            LeU32),
            LeU32),
            LengthCountU32),
            parse_u32_wstring_nt),
            parse_u32_wstring_nt),
        LAMBDA f : [cd3 |-> f[1], cd4 |-> f[2], d14 |-> f[3],
                    schema |-> f[5], table |-> f[4]])

inner_parse_data_source(i) ==
    Map(Then(
        Then(
        Then(
        Then(
        Then(Start(i),
            LeU32),                              \* 1 cd3
            LeU32),                              \* 2 cd4
            LengthCountU32),                     \* 3 d14
            parse_u32_wstring_nt),               \* 4 schema
            parse_u32_wstring_nt),               \* 5 table
        LAMBDA f : [cd3 |-> f[1], cd4 |-> f[2], d14 |-> f[3],
                    schema |-> f[4], table |-> f[5]])

\* length_value(le_u32, _parse_data_source)
LengthValueDataSource(i) == LengthValue(i, inner_parse_data_source)

parse_data_source(i) ==
    Map(Then(
        Then(
        Then(Start(i),
            DataSourceMagicGuard),                       \* 1 magic
            LAMBDA x : VersionGuard(<<4, 0>>, x)),       \* 2 version
            LengthValueDataSource),                      \* 3 data
        Last)

\* a decoder that hands the second record to keys and the third to cols
parse_sch_grid_KeysFirst(i) ==
    Map(Then(
        Then(
        Then(
        Then(
        Then(
        Then(
        Then(
        Then(
        Then(
        Then(Start(i),
            parse_ole_control_extent),
            FrameMagicGuard),
            LAMBDA x : VersionGuard(<<7, 0>>, x)),
            LengthValueWString),
            parse_sch_grid_inner4),
            parse_sch_grid_inner4),
            parse_sch_grid_inner4),
            parse_sch_grid_inner4),
            parse_sch_grid_inner4),
            parse_data_source),
        LAMBDA f : [extent |-> f[1],
                    frame |-> [name |-> f[4], d5 |-> f[5], cols |-> f[7],
                               keys |-> f[6], x2 |-> f[8], x3 |-> f[9]],
                    data_source |-> f[10]])

parse_sch_grid(i) ==
    Map(Then(
        Then(
        Then(
        Then(
        Then(
        Then(
        Then(
        Then(
        Then(
        Then(Start(i),
            parse_ole_control_extent),                   \* 1 extent
            FrameMagicGuard),                            \* 2 magic
            LAMBDA x : VersionGuard(<<7, 0>>, x)),       \* 3 version
            LengthValueWString),                         \* 4 name
            parse_sch_grid_inner4),                      \* 5 d5
            parse_sch_grid_inner4),                      \* 6 cols
            parse_sch_grid_inner4),                      \* 7 keys
            parse_sch_grid_inner4),                      \* 8 x2
            parse_sch_grid_inner4),                      \* 9 x3
            parse_data_source),                          \* 10 data_source
        LAMBDA f : [extent |-> f[1],
                    frame |-> [name |-> f[4], d5 |-> f[5], cols |-> f[6],
                               keys |-> f[7], x2 |-> f[8], x3 |-> f[9]],
                    data_source |-> f[10]])

\* verify(le_u32, |x| *x == magic), parser.rs:153 and parser.rs:156
VerifyU32(magic, i) == Verify(LeU32(i), magic)

\* parse_sch_grid_inner of parser.rs: count(le_u32, 11)
parse_sch_grid_inner(i) == CountU32(11, Start(i))

\* nom count(parse_sch_grid_inner, n), continuing the chain s
RECURSIVE CountInner(_, _)
CountInner(n, s) ==
    IF n = 0 \/ ~s.ok THEN s
    ELSE CountInner(n - 1, Then(s, parse_sch_grid_inner))

\* the earlier Grid decoder kept in parser.rs
parser_parse_sch_grid(i) ==
    Map(Then(
        Then(
        Then(
        Then(
        Then(
        Then(
        Then(
        Then(
        Then(
        Then(
        Then(
        Then(
        Then(
        Then(
        Then(
        Then(
        Then(
        Then(
        Then(Start(i),
            LAMBDA x : VerifyU32(OLE_CONTROL_MAGIC, x)),     \* 1 d1
            LeU32),                                          \* 2 d2
            SizeParse),                                      \* 3 size1
            LAMBDA x : VerifyU32(FRAME_MAGIC, x)),           \* 4 d3
            LeU32),                                          \* 5 d4
            LengthValueWString),                             \* 6 name
            LeU32_2),                                        \* 7 d5_1
            LeU32_2),                                        \* 8 d5_2
            LeU32_2),                                        \* 9 d5_3
            LeU32),                                          \* 10 d6
            LAMBDA x : CountU32(16, Start(x))),              \* 11 d7
            SizeParse),                                      \* 12 size2
            LeU32),                                          \* 13 d8_0
            LeU32),                                          \* 14 col_count
            LeU32),                                          \* 15 cols_shown
            LAMBDA x : CountInner(4, Start(x))),             \* 16 x1
            LengthCountU32),                                 \* 17 d14
            parse_u32_wstring_nt),                           \* 18 schema
            parse_u32_wstring_nt),                           \* 19 table
        LAMBDA f : [d1 |-> f[1], d2 |-> f[2], size1 |-> f[3], d3 |-> f[4],
                    d4 |-> f[5], name |-> f[6], d5_1 |-> f[7], d5_2 |-> f[8],
                    d5_3 |-> f[9], d6 |-> f[10], d7 |-> f[11],
                    size2 |-> f[12], d8_0 |-> f[13], col_count |-> f[14],
                    cols_shown |-> f[15], x1 |-> f[16], d14 |-> f[17],
                    schema |-> f[18], table |-> f[19]])

(***************************************************************************)
(* Site orchestrator: SysDiagramFile::schema_form (src/src/lib.rs).        *)
(***************************************************************************)
CLSID_SCHGRID == "e9b0e6d9-811c-11d0-ad51-00a0c90f5739"

CLSID_POLYLINE == "d24d4453-1f01-11d1-8e63-006097d2df48"

CLSID_DDSLABEL == "d24d4451-1f01-11d1-8e63-006097d2df48"

\* a dispatch whose default arm decodes the payload as a Polyline
MatchArm_DefaultPolyline(clsid) ==
    IF clsid = CLSID_SCHGRID THEN "SchGrid"
    ELSE IF clsid = CLSID_DDSLABEL THEN "Label"
    ELSE "Polyline"

\* match clsid { CLSID_SCHGRID, CLSID_POLYLINE, CLSID_DDSLABEL, _ }
MatchArm(clsid) ==
    IF clsid = CLSID_SCHGRID THEN "SchGrid"
    ELSE IF clsid = CLSID_POLYLINE THEN "Polyline"
    ELSE IF clsid = CLSID_DDSLABEL THEN "Label"
    ELSE "Unknown"

\* Control::SchGrid(..), Control::Polyline(..), Control::Label(..),
\* Control::Unknown(clsid)
Control(tag, v) == [tag |-> tag, v |-> v]

\* SiteInfo { id, depth, pos, tooltip } of a site
SiteInfoOf(site) ==
    [id |-> site.id, depth |-> site.depth, pos |-> site.pos,
     tooltip |-> site.tooltip]

\* a loop that keeps what the buffer held
Truncate0_Keep(b) == b

\* buf.truncate(0)
Truncate0(b) == <<>>

\* s.read_to_end(&mut buf): the stream is appended to the buffer
ReadToEnd(b, stream) == b \o stream

\* a push at the front of the vector
Push_Front(vec, e) == <<e>> \o vec

\* controls.push(e)
Push(vec, e) == Append(vec, e)

NoReturn == [tag |-> "None", error |-> "", controls |-> <<>>]

\* Ok((form_control, controls))
ReturnOk(cs) == [tag |-> "Ok", error |-> "", controls |-> cs]

\* Err(e): nothing of the accumulated sequence is part of the value
ReturnErr(e) == [tag |-> "Err", error |-> e, controls |-> <<>>]

\* a panic unwinds schema_form
Unwind(kind) == [tag |-> "Panic", error |-> kind, controls |-> <<>>]

\* From<nom::Err<..>> for Error (src/src/error.rs)
ErrorFrom(kind) == IF kind = "Incomplete" THEN "Incomplete" ELSE "ParseError"

\* the ? on a decoder call of the loop body
Propagate(r) ==
    IF IsPanic(r) THEN Unwind(r.err) ELSE ReturnErr(ErrorFrom(r.err))

Pending == [ok |-> FALSE, rest |-> <<>>, val |-> <<>>, err |-> "Pending"]

\* the site the iterator yields next
NextSite == sites[iter + 1]

\* while let Some(..) = iter.next(), with a stream that can be read
SiteReady ==
    /\ pc = "loop"
    /\ iter < Len(sites)
    /\ NextSite.readable

MissingF ==
    /\ pc = "start"
    /\ ~has_f
    /\ ret' = ReturnErr("MissingStream(f)")
    /\ pc' = "done"
    /\ UNCHANGED <<has_f, has_o, form_ok, sites, iter, buf, controls>>
    /\ UNCHANGED harnessVars

RootFormError ==
    /\ pc = "start"
    /\ has_f
    /\ ~form_ok
    /\ ret' = ReturnErr("Cfb")
    /\ pc' = "done"
    /\ UNCHANGED <<has_f, has_o, form_ok, sites, iter, buf, controls>>
    /\ UNCHANGED harnessVars

MissingO ==
    /\ pc = "start"
    /\ has_f
    /\ form_ok
    /\ ~has_o
    /\ ret' = ReturnErr("MissingStream(o)")
    /\ pc' = "done"
    /\ UNCHANGED <<has_f, has_o, form_ok, sites, iter, buf, controls>>
    /\ UNCHANGED harnessVars

EnterLoop ==
    /\ pc = "start"
    /\ has_f
    /\ form_ok
    /\ has_o
    /\ iter' = 0
    /\ controls' = <<>>
    /\ buf' = <<>>
    /\ pc' = "loop"
    /\ UNCHANGED <<has_f, has_o, form_ok, sites, ret>>
    /\ UNCHANGED harnessVars

\* iter.site_stream() or read_to_end fails
SiteStreamError ==
    /\ pc = "loop"
    /\ iter < Len(sites)
    /\ ~NextSite.readable
    /\ iter' = iter + 1
    /\ buf' = Truncate0(buf)
    /\ ret' = ReturnErr("Cfb")
    /\ pc' = "done"
    /\ UNCHANGED <<has_f, has_o, form_ok, sites, controls>>
    /\ UNCHANGED harnessVars

\* FormEmbeddedActiveXControl::ControlCached(_) => unimplemented!("")
SiteCached ==
    /\ SiteReady
    /\ NextSite.class = "ControlCached"
    /\ iter' = iter + 1
    /\ buf' = ReadToEnd(Truncate0(buf), NextSite.object_stream)
    /\ ret' = Unwind("Panic(unimplemented)")
    /\ pc' = "done"
    /\ UNCHANGED <<has_f, has_o, form_ok, sites, controls>>
    /\ UNCHANGED harnessVars

SiteSchGrid ==
    /\ SiteReady
    /\ NextSite.class = "ControlNonCached"
    /\ MatchArm(NextSite.clsid) = "SchGrid"
    /\ iter' = iter + 1
    /\ buf' = ReadToEnd(Truncate0(buf), NextSite.object_stream)
    /\ input' = buf'
    /\ decoder' = "parse_sch_grid"
    /\ result' = parse_sch_grid(buf')
    /\ controls' = IF result'.ok
                   THEN Push(controls, <<SiteInfoOf(NextSite),
                                         Control("SchGrid", result'.val)>>)
                   ELSE controls
    /\ pc' = IF result'.ok THEN "loop" ELSE "done"
    /\ ret' = IF result'.ok THEN ret ELSE Propagate(result')
    /\ UNCHANGED <<overflow_checks, has_f, has_o, form_ok, sites>>

SitePolyline ==
    /\ SiteReady
    /\ NextSite.class = "ControlNonCached"
    /\ MatchArm(NextSite.clsid) = "Polyline"
    /\ iter' = iter + 1
    /\ buf' = ReadToEnd(Truncate0(buf), NextSite.object_stream)
    /\ input' = buf'
    /\ decoder' = "parse_polyline"
    /\ result' = parse_polyline(buf')
    /\ controls' = IF result'.ok
                   THEN Push(controls, <<SiteInfoOf(NextSite),
                                         Control("Polyline", result'.val)>>)
                   ELSE controls
    /\ pc' = IF result'.ok THEN "loop" ELSE "done"
    /\ ret' = IF result'.ok THEN ret ELSE Propagate(result')
    /\ UNCHANGED <<overflow_checks, has_f, has_o, form_ok, sites>>

SiteLabel ==
    /\ SiteReady
    /\ NextSite.class = "ControlNonCached"
    /\ MatchArm(NextSite.clsid) = "Label"
    /\ iter' = iter + 1
    /\ buf' = ReadToEnd(Truncate0(buf), NextSite.object_stream)
    /\ input' = buf'
    /\ decoder' = "parse_label"
    /\ result' = parse_label(buf')
    /\ controls' = IF result'.ok
                   THEN Push(controls, <<SiteInfoOf(NextSite),
                                         Control("Label", result'.val)>>)
                   ELSE controls
    /\ pc' = IF result'.ok THEN "loop" ELSE "done"
    /\ ret' = IF result'.ok THEN ret ELSE Propagate(result')
    /\ UNCHANGED <<overflow_checks, has_f, has_o, form_ok, sites>>

\* _ => Control::Unknown(clsid): no decoder runs on the payload
SiteUnknown ==
    /\ SiteReady
    /\ NextSite.class = "ControlNonCached"
    /\ MatchArm(NextSite.clsid) = "Unknown"
    /\ iter' = iter + 1
    /\ buf' = ReadToEnd(Truncate0(buf), NextSite.object_stream)
    /\ input' = buf'
    /\ decoder' = "none"
    /\ result' = Pending
    /\ controls' = Push(controls, <<SiteInfoOf(NextSite),
                                    Control("Unknown", NextSite.clsid)>>)
    /\ UNCHANGED <<overflow_checks, has_f, has_o, form_ok, sites, pc, ret>>

\* iter.next() is None: Ok((form_control, controls))
Return ==
    /\ pc = "loop"
    /\ iter = Len(sites)
    /\ ret' = ReturnOk(controls)
    /\ pc' = "done"
    /\ UNCHANGED <<has_f, has_o, form_ok, sites, iter, buf, controls>>
    /\ UNCHANGED harnessVars

(***************************************************************************)
(* Byte fixtures: encoders used only to build the inputs of the decoders.  *)
(***************************************************************************)
U16B(n) == <<n % 256, n \div 256>>

U32B(n) == <<n % 256, (n \div 256) % 256, (n \div 65536) % 256,
             (n \div 16777216) % 256>>

\* a u32 given as <<hi, lo>>
WordB(w) == U16B(w[2]) \o U16B(w[1])

\* a signed 32-bit value in two's complement
I32B(v) == U16B(v % 65536) \o U16B((v \div 65536) % 65536)

RECURSIVE Flatten(_)
Flatten(ss) == IF ss = <<>> THEN <<>> ELSE ss[1] \o Flatten(Tail(ss))

Zeros(n) == [k \in 1..n |-> 0]

\* all sequences over S of length 0..n
SeqsUpTo(S, n) == UNION {[1..k -> S] : k \in 0..n}

\* the first Len(i) - k bytes of i
CutTail(i, k) == SubSeq(i, 1, IF Len(i) >= k THEN Len(i) - k ELSE 0)

\* UTF-16LE bytes of a sequence of code units
Wstr16(units) == Flatten([k \in 1..Len(units) |-> U16B(units[k])])

FormIdle ==
    /\ has_f = FALSE /\ has_o = FALSE /\ form_ok = FALSE
    /\ sites = <<>> /\ iter = 0 /\ buf = <<>> /\ controls = <<>>
    /\ pc = "idle" /\ ret = NoReturn

(***************************************************************************)
(* Polyline and Label specification: the decoders of src/src/dds.rs        *)
(* applied to bounded payloads.                                            *)
(***************************************************************************)
MaxPoints == 3

MaxLabels == 1

MaxCut == 2

PointLib == {<<0, 0>>, <<500, 500>>, <<1000, 0>>, <<-1, -70000>>}

\* end-cap words: members of the closed set, their neighbours, and a word
\* whose low half is a member while its high half is not zero
EndVals == {0, 2, 18, 19, 99, 100, 65538}

PointB(p) == I32B(p[1]) \o I32B(p[2])

LabelRefB(k) == U32B(k) \o U32B(0) \o PointB(<<10 * k, -k>>)
                \o U32B(300) \o U32B(200)

\* the 16 bytes before the label array
BlobB == [k \in 1..16 |-> 160 + k]

PolylineB(declared, pts, src, dest, colorKind, nlabels, labels, tail) ==
    U16B(declared) \o U16B(11)
    \o Flatten([k \in 1..Len(pts) |-> PointB(pts[k])])
    \o U32B(src) \o U32B(dest)
    \o <<1, 2, 3, colorKind>>
    \o BlobB
    \o U32B(nlabels) \o Flatten([k \in 1..labels |-> LabelRefB(k)])
    \o tail

\* payloads that vary the points and the declared point count
PolylinePointInputs ==
    {PolylineB(declared, pts, 0, 2, 0, 0, 0, tail) :
        <<pts, declared, tail>> \in
            {<<p, d, t>> \in SeqsUpTo(PointLib, MaxPoints) \X (0..(MaxPoints + 1))
                             \X {<<63>>, <<63, 0, 0, 0, 1, 0>>} :
                d \in {Len(p) - 1, Len(p), Len(p) + 1}}}

\* payloads that vary what follows the points, and truncated payloads
PolylineTailInputs ==
    {CutTail(PolylineB(2, <<<<0, 0>>, <<1000, 0>>>>, src, dest, ck, nl, l,
                       <<63, 7>>), cut) :
        <<src, dest, ck, nl, l, cut>> \in
            {<<s, d, c, n, m, k>> \in EndVals \X EndVals \X {2, 3}
                                      \X (0..(MaxLabels + 1)) \X (0..MaxLabels)
                                      \X (0..MaxCut) :
                n \in {m, m + 1}}}

PolylineInputs == PolylinePointInputs \cup PolylineTailInputs

\* a Label payload: justification, flag word and text vary
LabelB(justification, flags, text) ==
    U32B(2) \o U32B(300) \o U32B(200) \o Zeros(6)
    \o <<255, 255, 255, 0>> \o <<0, 0, 0, 0>>
    \o U16B(justification) \o U16B(0) \o U16B(flags)
    \o <<1>> \o U16B(0) \o <<0>> \o U16B(400) \o U32B(80000) \o <<1, 65>>
    \o U16B(Len(text)) \o Wstr16(text)

\* flag words: none, all six, some, every single bit, and the six flags
\* together with each bit above them
LabelFlagWords ==
    {0, 5, 21, 42, 63, 65535} \cup {2 ^ b : b \in 0..15}
    \cup {63 + 2 ^ b : b \in 6..15}

LabelInputs ==
    {CutTail(LabelB(j, w, <<70, 75>>), cut) :
        <<j, w, cut>> \in {1, 3} \X LabelFlagWords \X (0..MaxCut)}

\* the pieces of a caption, as UTF-8 bytes
Apostrophe == <<39>>

RelationshipPrefix ==
    <<82, 101, 108, 97, 116, 105, 111, 110, 115, 104, 105, 112, 32, 39>>

BetweenSeparator == <<39, 32, 98, 101, 116, 119, 101, 101, 110, 32, 39>>

AndSeparator == <<39, 32, 97, 110, 100, 32, 39>>

\* Relationship '<name>' between '<from>' and '<to>'
CaptionB(name, from, to) ==
    RelationshipPrefix \o name \o BetweenSeparator \o from \o AndSeparator
    \o to \o Apostrophe

\* Relationship 'FK_A_B' between 'A' and 'B'
CaptionOk == CaptionB(<<70, 75, 95, 65, 95, 66>>, <<65>>, <<66>>)

\* Relationship 'FK_A_B' between 'A' with 'B'
CaptionNoAnd ==
    RelationshipPrefix \o <<70, 75, 95, 65, 95, 66>> \o BetweenSeparator
    \o <<65>> \o <<39, 32, 119, 105, 116, 104, 32, 39>> \o <<66>> \o Apostrophe

\* captions put together from right and wrong pieces: a prefix in lower
\* case or none, exchanged, reworded or missing separators, no closing
\* apostrophe or text after it, empty names and a name with an apostrophe
CaptionPieceInputs ==
    {p1 \o name \o p2 \o from \o p3 \o <<66>> \o p4 :
        <<p1, name, p2, from, p3, p4>> \in
            {RelationshipPrefix, <<114>> \o Tail(RelationshipPrefix), <<>>}
            \X {<<70, 75, 95, 65, 95, 66>>, <<>>, <<79, 39, 66>>}
            \X {BetweenSeparator, AndSeparator, <<>>}
            \X {<<65>>, <<>>}
            \X {AndSeparator, BetweenSeparator, <<32, 97, 110, 100, 32>>}
            \X {Apostrophe, <<>>, <<39, 32, 120>>}}

\* the well-formed caption cut at every byte
CaptionCutInputs == {CutTail(CaptionOk, cut) : cut \in 0..Len(CaptionOk)}

CaptionInputs == CaptionPieceInputs \cup CaptionCutInputs \cup {CaptionNoAnd}

InitPolyline ==
    /\ input \in PolylineInputs \cup LabelInputs \cup CaptionInputs
    /\ decoder = "none"
    /\ result = Pending
    /\ overflow_checks = FALSE
    /\ FormIdle

DecodePolyline ==
    /\ decoder = "none"
    /\ decoder' = "parse_polyline"
    /\ result' = parse_polyline(input)
    /\ UNCHANGED <<input, overflow_checks>>
    /\ UNCHANGED formVars

DecodePolylineParser ==
    /\ decoder = "none"
    /\ decoder' = "parser_parse_polyline"
    /\ result' = parser_parse_polyline(input)
    /\ UNCHANGED <<input, overflow_checks>>
    /\ UNCHANGED formVars

DecodeLabel ==
    /\ decoder = "none"
    /\ decoder' = "parse_label"
    /\ result' = parse_label(input)
    /\ UNCHANGED <<input, overflow_checks>>
    /\ UNCHANGED formVars

\* the caption of a Polyline site, parsed on its own
ParseRelationship ==
    /\ decoder = "none"
    /\ decoder' = "parse_relationship"
    /\ result' = parse_relationship(input)
    /\ UNCHANGED <<input, overflow_checks>>
    /\ UNCHANGED formVars

\* the renderer takes the first and the last point of a decoded Polyline
RenderPolyline ==
    /\ decoder = "parse_polyline"
    /\ result.ok
    /\ decoder' = "generate_svg"
    /\ result' = RenderEndpoints(result.val)
    /\ UNCHANGED <<input, overflow_checks>>
    /\ UNCHANGED formVars

NextPolyline ==
    \/ DecodePolyline
    \/ DecodePolylineParser
    \/ DecodeLabel
    \/ ParseRelationship
    \/ RenderPolyline

SpecPolyline == InitPolyline /\ [][NextPolyline]_vars

(***************************************************************************)
(* DsRef specification: the tree decoder applied to bounded streams.       *)
(***************************************************************************)
MaxNodes == 5

MaxChunks == 3

\* flag words that differ in HASFIRSTCHILD and HASNEXTSIBLING only
ChainWords == {WordB(<<0, 512>>), WordB(<<2, 512>>), WordB(<<1, 2048>>),
               WordB(<<3, 32768>>)}

StrA == <<4, 0, 0, 0, 65, 0, 0, 0>>

Guid1 == <<214, 133, 9, 179, 187, 107, 242, 69, 154, 184, 55, 22, 100, 240,
           50, 112>>

\* flag words, and the pieces a node's optional fields are made of
DsChunks == {WordB(<<0, 0>>), WordB(<<2, 512>>), WordB(<<1, 2048>>),
             WordB(<<65, 2048>>),
             WordB(<<4, 512>>), WordB(<<36, 512>>), WordB(<<64, 512>>),
             WordB(<<0, 16384>>), WordB(<<8, 8>>),
             StrA, Guid1, <<1, 0, 0, 0>>, <<11, 0, 255, 255>>, <<8, 0>>,
             <<3, 0, 1, 0>>}

\* a node with every optional field: extended type, name, owner, one child
\* and one BOOL property
FullNode ==
    WordB(<<101, 16896>>) \o Guid1 \o StrA \o StrA \o WordB(<<0, 512>>)
    \o <<1, 0, 0, 0>> \o Guid1 \o <<11, 0, 255, 255>>

\* a node whose only property is a 32-bit integer (type tag 3)
NodeI4 == WordB(<<64, 512>>) \o <<1, 0, 0, 0>> \o Guid1 \o <<3, 0, 1, 0>>

\* a parent with properties whose only child is the full node: the
\* parent's property map comes after the child's subtree and properties
OrderNode ==
    WordB(<<65, 2048>>) \o FullNode \o <<1, 0, 0, 0>> \o Guid1
    \o <<11, 0, 0, 0>>

DsChainInputs ==
    {Flatten(ws) : ws \in UNION {[1..k -> ChainWords] : k \in 1..MaxNodes}}

DsFieldInputs == {Flatten(cs) : cs \in SeqsUpTo(DsChunks, MaxChunks)}

\* the full node, alone and as the only child of a parent, cut at every byte
DsFullInputs ==
    {prefix \o CutTail(FullNode, cut) :
        <<prefix, cut>> \in {<<>>, WordB(<<1, 2048>>)} \X (0..Len(FullNode))}
    \cup {NodeI4, WordB(<<1, 2048>>) \o NodeI4}
    \cup {CutTail(OrderNode, cut) : cut \in 0..24}

\* a schema-contents header followed by a tree
DsHeader == Guid1 \o <<0, 0>> \o U16B(1) \o Zeros(8) \o U32B(0)

DsContentsInputs ==
    {CutTail(DsHeader, cut) \o Flatten(cs) :
        <<cut, cs>> \in (0..1) \X SeqsUpTo(DsChunks, 2)}

\* 16-bit words after a BOOL tag: false, true, and words near them
BoolWords == {0, 65535, 1, 255, 256, 32768, 65280, 65534}

\* type tags: BSTR and BOOL, other variant types (EMPTY, NULL, I2, I4, DATE,
\* VARIANT, UNKNOWN, UI4, VECTOR, ARRAY | BSTR, BYREF | BOOL) and words with
\* bits that belong to no variant type
TypeTags == {8, 11, 0, 1, 2, 3, 7, 12, 13, 19, 4096, 8200, 16395, 128, 2048,
             32768, 32776, 65535}

\* a variant: a type tag and what follows it, cut short
VariantInputs ==
    {CutTail(U16B(VT_BOOL) \o U16B(w) \o tail, cut) :
        <<w, tail, cut>> \in BoolWords \X {<<>>, <<7>>} \X (0..2)}
    \cup {U16B(t) \o value :
            <<t, value>> \in TypeTags \X {<<>>, <<255, 255>>, <<0, 0, 9>>, StrA}}

\* tick values: the Unix epoch (116444736000000000) and the ticks around
\* it, one second later, a time in 2020, the largest u64, and values before
\* the Unix epoch
TickLib ==
    {<<413, 45534, 54590, 32768>>,    \* 116444736000000000
     <<413, 45534, 54590, 32769>>,    \* 116444736000000001
     <<413, 45534, 54743, 5759>>,     \* 116444736009999999
     <<413, 45534, 54743, 5760>>,     \* 116444736010000000
     <<469, 49206, 26903, 54919>>,    \* 132223104001234567
     <<65535, 65535, 65535, 65535>>,  \* 18446744073709551615
     <<413, 45534, 54590, 32767>>,    \* 116444735999999999
     <<0, 2, 46608, 37120>>,          \* 11644473600
     <<0, 0, 0, 0>>}

\* the eight little-endian bytes of a u64
U64B(w) == U16B(w[4]) \o U16B(w[3]) \o U16B(w[2]) \o U16B(w[1])

\* schema contents whose timestamp varies, with a root node without fields
DsTimeInputs ==
    {Guid1 \o <<0, 0>> \o U16B(1) \o U64B(t) \o U32B(0) \o WordB(<<0, 512>>) :
        t \in TickLib}

\* flag words: each bit no flag names (0x08, 0x20, 0x40, 0x80) alone and
\* with named bits, HASMONIKER alone and with HASNAME, bits that only the
\* NODE mask names (0x00100000, 0x00800000), every named bit (0xFFFFFF17)
\* and every bit
FlagWords == {<<0, 8>>, <<0, 32>>, <<0, 64>>, <<0, 128>>, <<0, 232>>,
              <<0, 520>>, <<4, 544>>, <<8, 8>>, <<65535, 65535>>,
              <<8, 0>>, <<8, 512>>, <<12, 512>>, <<16, 0>>, <<128, 0>>,
              <<65535, 65303>>}

\* what may follow a flag word: nothing, one string, or every optional
\* field with one child without fields and an empty property map
FlagTails == {<<>>, StrA,
              Guid1 \o StrA \o StrA \o WordB(<<0, 512>>) \o U32B(0)}

DsFlagInputs == {WordB(w) \o t : <<w, t>> \in FlagWords \X FlagTails}

\* length prefixes of a string: the smallest values, a value beyond any
\* input, and values near 2^16, 2^31 and 2^32
PrefixWords == {<<0, 0>>, <<0, 1>>, <<0, 2>>, <<0, 3>>, <<0, 4>>, <<0, 5>>,
                <<0, 6>>, <<0, 65535>>, <<1, 0>>, <<32768, 0>>, <<32768, 1>>,
                <<32768, 2>>, <<65535, 65535>>}

\* what follows the prefix: nothing, a terminator alone, "A" and "AB" with
\* their terminator, "A" with a terminator that is not zero, an unpaired
\* surrogate, and "A" followed by one more byte
StringPayloads == {<<>>, <<0, 0>>, <<65, 0, 0, 0>>, <<65, 0, 66, 0, 0, 0>>,
                   <<65, 0, 0, 1>>, <<0, 216, 0, 0>>, <<65, 0, 0, 0, 9>>}

StringInputs ==
    {WordB(w) \o t : <<w, t>> \in PrefixWords \X StringPayloads}
    \cup {<<>>, <<4, 0, 0>>}

MaxProps == 3

Guid2 == <<215, 133, 9, 179, 187, 107, 242, 69, 154, 184, 55, 22, 100, 240,
           50, 112>>

\* (GUID, Variant) pairs: two keys, with the values true, false and "A"
PairLib ==
    {g \o v : <<g, v>> \in {Guid1, Guid2}
                  \X {<<11, 0, 255, 255>>, <<11, 0, 0, 0>>, <<8, 0>> \o StrA}}

\* a property map: a count, then pairs, as many as the count says, fewer
\* or more
DsPropertyInputs ==
    {U32B(count) \o Flatten(ps) :
        <<count, ps>> \in (0..MaxProps) \X SeqsUpTo(PairLib, MaxProps)}

InitDsRef ==
    /\ input \in DsChainInputs \cup DsFieldInputs \cup DsFullInputs
                 \cup DsContentsInputs \cup VariantInputs \cup DsTimeInputs
                 \cup DsPropertyInputs \cup DsFlagInputs \cup StringInputs
    /\ decoder = "none"
    /\ result = Pending
    /\ overflow_checks \in BOOLEAN
    /\ FormIdle

DecodeDsRefNode ==
    /\ decoder = "none"
    /\ decoder' = "parse_dsref_node"
    /\ result' = parse_dsref_node(input)
    /\ UNCHANGED <<input, overflow_checks>>
    /\ UNCHANGED formVars

DecodeSchemaContents ==
    /\ decoder = "none"
    /\ decoder' = "parse_dsref_schema_contents"
    /\ result' = parse_dsref_schema_contents(input)
    /\ UNCHANGED <<input, overflow_checks>>
    /\ UNCHANGED formVars

\* the value of one property, decoded on its own
DecodeVariant ==
    /\ decoder = "none"
    /\ decoder' = "parse_variant"
    /\ result' = parse_variant(input)
    /\ UNCHANGED <<input, overflow_checks>>
    /\ UNCHANGED formVars

\* the property map of a node, decoded on its own
DecodeProperties ==
    /\ decoder = "none"
    /\ decoder' = "parse_dsref_properties"
    /\ result' = parse_dsref_properties(input)
    /\ UNCHANGED <<input, overflow_checks>>
    /\ UNCHANGED formVars

\* a name, an owner or a BSTR value, decoded on its own
DecodeBytesString ==
    /\ decoder = "none"
    /\ decoder' = "parse_u32_bytes_wstring_nt"
    /\ result' = parse_u32_bytes_wstring_nt(input)
    /\ UNCHANGED <<input, overflow_checks>>
    /\ UNCHANGED formVars

\* the timestamp of decoded schema contents as Unix seconds
\* (src/src/bin/sysdiagram.rs:139)
GetTime ==
    /\ decoder = "parse_dsref_schema_contents"
    /\ result.ok
    /\ decoder' = "get_time"
    /\ result' = get_time(result.val)
    /\ UNCHANGED <<input, overflow_checks>>
    /\ UNCHANGED formVars

NextDsRef ==
    \/ DecodeDsRefNode
    \/ DecodeSchemaContents
    \/ DecodeVariant
    \/ DecodeProperties
    \/ DecodeBytesString
    \/ GetTime

SpecDsRef == InitDsRef /\ [][NextDsRef]_vars

(***************************************************************************)
(* Grid specification: the Grid decoders applied to bounded payloads.      *)
(***************************************************************************)
MaxCols == 2

WidthLib == {0, 120, 70000}

\* a layout: the declared width count and the widths that follow it
Layout(declared, widths) == [declared |-> declared, widths |-> widths]

\* a layout whose declared count is the number of widths
LayoutOf(n) == Layout(<<0, n>>, [k \in 1..n |-> 100 + k])

LayoutB(l) ==
    U32B(1) \o U32B(2) \o U32B(100) \o U32B(200) \o U32B(3)
    \o U32B(Len(l.widths)) \o U32B(Len(l.widths))
    \o WordB(l.declared) \o U32B(9)
    \o Flatten([k \in 1..Len(l.widths) |-> U32B(l.widths[k])])

\* length_value string: byte length, code units, terminator
NameB(units) == U32B(2 * Len(units) + 2) \o Wstr16(units) \o <<0, 0>>

\* a string prefixed by a count of code units
StringB(len, units) == U32B(len) \o Wstr16(units) \o <<0, 0>>

VersionB(v) == U16B(v[1]) \o U16B(v[2])

\* the body of a data-source record: two words, the selected columns
\* with their count, the two names, and padding inside the record
DataSourceBodyB(g) ==
    U32B(5) \o U32B(6) \o U32B(Len(g.sel))
    \o Flatten([k \in 1..Len(g.sel) |-> U32B(g.sel[k])])
    \o StringB(g.slen, g.schema) \o StringB(Len(g.table) + 1, g.table)
    \o Zeros(g.pad)

DataSourceB(g) ==
    WordB(g.dm) \o VersionB(g.dv) \o U32B(Len(DataSourceBodyB(g)))
    \o DataSourceBodyB(g)

GridB(g) ==
    WordB(g.cm) \o VersionB(g.cv) \o U32B(4000) \o U32B(3000)
    \o WordB(g.fm) \o VersionB(g.fv) \o NameB(g.name)
    \o Flatten([k \in 1..5 |-> LayoutB(g.layouts[k])])
    \o DataSourceB(g)

\* a well-formed Grid: table "T" of schema "dbo"
GridDefaults ==
    [cm |-> OLE_CONTROL_MAGIC, cv |-> <<8, 0>>,
     fm |-> FRAME_MAGIC, fv |-> <<7, 0>>,
     dm |-> FRAME_MAGIC, dv |-> <<4, 0>>,
     name |-> <<84>>,
     layouts |-> <<LayoutOf(1), LayoutOf(2), LayoutOf(0), LayoutOf(0),
                   LayoutOf(1)>>,
     sel |-> <<0, 1>>, pad |-> 0,
     slen |-> 4, schema |-> <<100, 98, 111>>, table |-> <<84>>]

\* a well-formed Grid with 22 widths in all, the one shape that the earlier
\* decoder of parser.rs reads to its end as well
Grid22 ==
    [GridDefaults EXCEPT !.layouts = <<LayoutOf(5), LayoutOf(5), LayoutOf(4),
                                       LayoutOf(4), LayoutOf(4)>>]

\* a well-formed Grid whose five layouts all differ
GridFive ==
    [GridDefaults EXCEPT !.layouts = <<Layout(<<0, 1>>, <<120>>),
                                       Layout(<<0, 2>>, <<70000, 0>>),
                                       Layout(<<0, 0>>, <<>>),
                                       Layout(<<0, 1>>, <<0>>),
                                       Layout(<<0, 2>>, <<120, 120>>)>>]

FlipHalf(h, b) == IF (h \div 2 ^ b) % 2 = 1 THEN h - 2 ^ b ELSE h + 2 ^ b

\* the u32 w with bit b inverted
FlipBit(w, b) ==
    IF b < 16 THEN <<w[1], FlipHalf(w[2], b)>>
    ELSE <<FlipHalf(w[1], b - 16), w[2]>>

MagicBits == 0..31

ControlVersions == {<<8, 0>>, <<9, 0>>}

\* payloads with one bit of a magic constant inverted
GridMagicInputs ==
    {GridB([GridDefaults EXCEPT !.cm = c, !.fm = f, !.cv = v]) :
        <<c, f, v>> \in
            (({OLE_CONTROL_MAGIC} \cup
                  {FlipBit(OLE_CONTROL_MAGIC, b) : b \in MagicBits})
               \X {FRAME_MAGIC, FlipBit(FRAME_MAGIC, 0), FlipBit(FRAME_MAGIC, 31)}
               \X ControlVersions)
            \cup
            ({OLE_CONTROL_MAGIC}
               \X {FlipBit(FRAME_MAGIC, b) : b \in MagicBits}
               \X ControlVersions)}

\* payloads that vary the three version pairs
GridVersionInputs ==
    {GridB([GridDefaults EXCEPT !.cv = c, !.fv = f, !.dv = d]) :
        <<c, f, d>> \in {<<8, 0>>, <<8, 1>>, <<0, 8>>}
                        \X {<<7, 0>>, <<7, 1>>, <<8, 0>>}
                        \X {<<4, 0>>, <<0, 4>>, <<4, 1>>}}

\* layouts whose declared count is one less than, equal to, or one more
\* than the number of widths, and one whose count is beyond any input
Layouts ==
    {Layout(<<0, d>>, ws) :
        <<d, ws>> \in {<<n, s>> \in (0..(MaxCols + 1)) \X SeqsUpTo(WidthLib, MaxCols) :
                          n \in {Len(s) - 1, Len(s), Len(s) + 1}}}
    \cup {Layout(<<65535, 65535>>, <<120>>)}

\* a layout, followed by nothing or by one more word, and cut short
LayoutInputs ==
    {CutTail(LayoutB(l) \o tail, cut) :
        <<l, tail, cut>> \in Layouts \X {<<>>, <<7, 0, 0, 0>>} \X (0..MaxCut)}

\* Grids whose first layout varies
GridLayoutInputs ==
    {GridB([GridDefaults EXCEPT !.layouts[1] = l]) : l \in Layouts}

\* data-source records: version pairs and string counts
DataSourceInputs ==
    {DataSourceB([GridDefaults EXCEPT !.dv = d, !.slen = n]) :
        <<d, n>> \in {<<4, 0>>, <<0, 4>>, <<4, 1>>} \X {0, 1, 4, 5}}
    \cup {DataSourceB([GridDefaults EXCEPT !.sel = c, !.pad = p,
                                           !.table = t]) \o tail :
            <<c, p, t, tail>> \in {<<>>, <<7>>, <<70000, 0, 1>>} \X {0, 4}
                                  \X {<<84>>, <<>>, <<100, 98, 111>>}
                                  \X {<<>>, <<9, 9>>}}
    \cup {WordB(FRAME_MAGIC) \o VersionB(<<4, 0>>) \o U32B(26)
          \o U32B(5) \o U32B(6) \o U32B(0)
          \o WordB(<<32768, 1>>) \o <<0, 0>> \o StringB(2, <<84>>)}

\* Grids whose schema string count varies (0 makes len * 2 - 2 wrap)
GridStringInputs ==
    {GridB([GridDefaults EXCEPT !.slen = n]) : n \in {0, 1, 4, 5}}

\* the well-formed Grid cut at every byte
GridCutInputs ==
    {CutTail(GridB(GridDefaults), cut) :
        cut \in 0..Len(GridB(GridDefaults))}

GridInputs ==
    GridMagicInputs \cup GridVersionInputs \cup GridLayoutInputs
    \cup GridStringInputs \cup GridCutInputs
    \cup {GridB(Grid22), GridB(GridFive)}
    \cup LayoutInputs \cup DataSourceInputs \cup StringInputs

InitGrid ==
    /\ input \in GridInputs
    /\ decoder = "none"
    /\ result = Pending
    /\ overflow_checks \in BOOLEAN
    /\ FormIdle

DecodeSchGrid ==
    /\ decoder = "none"
    /\ decoder' = "parse_sch_grid"
    /\ result' = parse_sch_grid(input)
    /\ UNCHANGED <<input, overflow_checks>>
    /\ UNCHANGED formVars

DecodeSchGridParser ==
    /\ decoder = "none"
    /\ decoder' = "parser_parse_sch_grid"
    /\ result' = parser_parse_sch_grid(input)
    /\ UNCHANGED <<input, overflow_checks>>
    /\ UNCHANGED formVars

DecodeLayout ==
    /\ decoder = "none"
    /\ decoder' = "parse_sch_grid_inner4"
    /\ result' = parse_sch_grid_inner4(input)
    /\ UNCHANGED <<input, overflow_checks>>
    /\ UNCHANGED formVars

DecodeDataSource ==
    /\ decoder = "none"
    /\ decoder' = "parse_data_source"
    /\ result' = parse_data_source(input)
    /\ UNCHANGED <<input, overflow_checks>>
    /\ UNCHANGED formVars

\* a schema or table name, decoded on its own
DecodeCharString ==
    /\ decoder = "none"
    /\ decoder' = "parse_u32_wstring_nt"
    /\ result' = parse_u32_wstring_nt(input)
    /\ UNCHANGED <<input, overflow_checks>>
    /\ UNCHANGED formVars

NextGrid ==
    \/ DecodeSchGrid
    \/ DecodeSchGridParser
    \/ DecodeLayout
    \/ DecodeDataSource
    \/ DecodeCharString

SpecGrid == InitGrid /\ [][NextGrid]_vars

(***************************************************************************)
(* Orchestrator specification: schema_form on bounded site lists.          *)
(***************************************************************************)
MaxSites == 3

CLSID_MSDTDDS == "b0406340-b0c5-11d0-89a9-00a0c9054129"

CLSID_NIL == "00000000-0000-0000-0000-000000000000"

\* the tooltip of a site: a well-formed relationship caption on site 3, one
\* without the ' and ' separator on site 10, a short text elsewhere
TooltipOf(id) ==
    IF id = 3 THEN CaptionOk
    ELSE IF id = 10 THEN CaptionNoAnd
    ELSE <<82, 48 + id>>

Site(id, class, clsid, readable, stream) ==
    [id |-> id, depth |-> id % 3,
     pos |-> [left |-> 100 * id, top |-> -7 * id],
     tooltip |-> TooltipOf(id),
     class |-> class, clsid |-> clsid, readable |-> readable,
     object_stream |-> stream]

PolylineOk ==
    PolylineB(2, <<<<0, 0>>, <<1000, 0>>>>, 0, 2, 0, 0, 0, <<63, 7, 8>>)

LabelOk == LabelB(1, 5, <<70, 75>>)

\* the sites a form is made of here: well-formed and malformed payloads of
\* the three known classes, two unknown classes, a cached class reference,
\* a site whose stream cannot be read, and a second Polyline site with the
\* payload of the first
SiteLib ==
    <<Site(1, "ControlNonCached", CLSID_SCHGRID, TRUE, GridB(GridDefaults)),
      Site(2, "ControlNonCached", CLSID_SCHGRID, TRUE,
           GridB([GridDefaults EXCEPT !.cv = <<9, 0>>])),
      Site(3, "ControlNonCached", CLSID_POLYLINE, TRUE, PolylineOk),
      Site(4, "ControlNonCached", CLSID_POLYLINE, TRUE,
           CutTail(PolylineOk, 30)),
      Site(5, "ControlNonCached", CLSID_DDSLABEL, TRUE, LabelOk),
      Site(6, "ControlNonCached", CLSID_MSDTDDS, TRUE, <<255, 255>>),
      Site(7, "ControlNonCached", CLSID_NIL, TRUE, PolylineOk),
      Site(8, "ControlCached", CLSID_POLYLINE, TRUE, PolylineOk),
      Site(9, "ControlNonCached", CLSID_DDSLABEL, FALSE, LabelOk),
      Site(10, "ControlNonCached", CLSID_POLYLINE, TRUE, PolylineOk)>>

\* ordered lists of distinct sites
SiteLists ==
    {[k \in DOMAIN s |-> SiteLib[s[k]]] :
        s \in {t \in SeqsUpTo(DOMAIN SiteLib, MaxSites) :
                  \A a, b \in DOMAIN t : a # b => t[a] # t[b]}}

Init ==
    /\ sites \in SiteLists
    /\ has_f \in BOOLEAN
    /\ form_ok \in BOOLEAN
    /\ has_o \in BOOLEAN
    /\ (Len(sites) > 1) => (has_f /\ form_ok /\ has_o)
    /\ overflow_checks \in BOOLEAN
    /\ input = <<>>
    /\ decoder = "none"
    /\ result = Pending
    /\ iter = 0
    /\ buf = <<>>
    /\ controls = <<>>
    /\ pc = "start"
    /\ ret = NoReturn

Next ==
    \/ MissingF
    \/ RootFormError
    \/ MissingO
    \/ EnterLoop
    \/ SiteStreamError
    \/ SiteCached
    \/ SiteSchGrid
    \/ SitePolyline
    \/ SiteLabel
    \/ SiteUnknown
    \/ Return

Spec == Init /\ [][Next]_vars

(***************************************************************************)
(* Properties of the orchestrator.                                         *)
(***************************************************************************)
KnownClsids == {CLSID_SCHGRID, CLSID_POLYLINE, CLSID_DDSLABEL}

\* the entry schema_form owes to a site with an unrecognized identifier
UnknownEntry(site) == <<SiteInfoOf(site), Control("Unknown", site.clsid)>>

\* the site processed last is readable, non-cached and of no known class
LastSiteUnknown ==
    /\ pc \in {"loop", "done"}
    /\ iter >= 1
    /\ sites[iter].readable
    /\ sites[iter].class = "ControlNonCached"
    /\ sites[iter].clsid \notin KnownClsids

SiteOutcome(site) ==
    IF site.clsid = CLSID_SCHGRID THEN parse_sch_grid(site.object_stream)
    ELSE IF site.clsid = CLSID_POLYLINE THEN parse_polyline(site.object_stream)
    ELSE IF site.clsid = CLSID_DDSLABEL THEN parse_label(site.object_stream)
    ELSE Ok(<<>>, site.clsid)

\* the Control variant selected by a site's identifier
VariantOf(site) ==
    IF site.clsid = CLSID_SCHGRID THEN "SchGrid"
    ELSE IF site.clsid = CLSID_POLYLINE THEN "Polyline"
    ELSE IF site.clsid = CLSID_DDSLABEL THEN "Label"
    ELSE "Unknown"

\* the (SiteInfo, Control) entry of a site that decodes
EntryOf(site) ==
    <<SiteInfoOf(site), Control(VariantOf(site), SiteOutcome(site).val)>>

\* the site is one whose payload reaches a decoder
Processable(site) == site.readable /\ site.class = "ControlNonCached"

\* the site's payload is malformed: its decoder returns an error value
Malformed(site) == Processable(site) /\ IsErr(SiteOutcome(site))

\* C2: when the payload of a site fails to decode, schema_form still
\* returns the (metadata, control) results of all other sites, those before
\* and those after the malformed one.
C2_PerSiteIsolation ==
    (/\ pc = "done"
     /\ has_f /\ form_ok /\ has_o
     /\ \A k \in 1..Len(sites) :
            Processable(sites[k]) /\ ~IsPanic(SiteOutcome(sites[k]))
     /\ \E k \in 1..Len(sites) : Malformed(sites[k]))
    => /\ ret.tag = "Ok"
       /\ \A k \in 1..Len(sites) :
              SiteOutcome(sites[k]).ok =>
                  \E j \in 1..Len(ret.controls) :
                      ret.controls[j] = EntryOf(sites[k])

\* C3: the loop keeps one entry per site processed, in site order (after k
\* iterations the accumulated sequence is the result for the first k
\* sites), and a returned sequence has exactly one entry per site, in the
\* order of the site list; each entry pairs the id, depth, position and
\* tooltip of its own site with the Control variant its identifier selects.
C3_OneEntryPerSiteInOrder ==
    /\ (pc = "loop") =>
           /\ Len(controls) = iter
           /\ \A k \in 1..iter : controls[k] = EntryOf(sites[k])
    /\ (pc = "done" /\ ret.tag = "Ok") =>
           /\ Len(ret.controls) = Len(sites)
           /\ \A k \in 1..Len(sites) :
                  /\ ret.controls[k] = EntryOf(sites[k])
                  /\ ret.controls[k][1].id = sites[k].id
                  /\ ret.controls[k][1].depth = sites[k].depth
                  /\ ret.controls[k][1].pos = sites[k].pos
                  /\ ret.controls[k][1].tooltip = sites[k].tooltip
                  /\ ret.controls[k][2].tag = VariantOf(sites[k])

C3_Witness ==
    /\ pc = "done"
    /\ ret.tag = "Ok"
    /\ Len(ret.controls) = 3
    /\ ret.controls[1][2].tag = "Label"
    /\ ret.controls[2][2].tag = "SchGrid"
    /\ ret.controls[3][2].tag = "Polyline"
    /\ <<ret.controls[1][1].id, ret.controls[2][1].id,
         ret.controls[3][1].id>> = <<5, 1, 3>>

\* two sites of the same class with the same payload bytes
SameBytes(s, t) == s.clsid = t.clsid /\ s.object_stream = t.object_stream

\* the site processed last is one whose payload went to a decoder
LastSiteDecoded ==
    /\ pc \in {"loop", "done"}
    /\ iter >= 1
    /\ Processable(sites[iter])
    /\ sites[iter].clsid \in KnownClsids

\* what an entry of the sequence holds of a caption parse, if anything
RelationshipOf(entry) ==
    IF "relationship" \in DOMAIN entry[2] THEN entry[2].relationship
    ELSE Pending

\* C13: for every Polyline site the orchestrator parses the site's tooltip
\* with the relationship pattern, so the site's entry carries the outcome
\* of that parse: (name, from, to) for a matching tooltip, the report of the
\* mismatch otherwise; a Polyline site with a tooltip that does not match
\* never ends the call.
C13_RelationshipStep ==
    /\ \A k \in 1..Len(controls) :
           controls[k][2].tag = "Polyline" =>
               RelationshipOf(controls[k])
                   = parse_relationship(controls[k][1].tooltip)
    /\ (/\ pc = "done"
        /\ iter >= 1
        /\ Processable(sites[iter])
        /\ sites[iter].clsid = CLSID_POLYLINE
        /\ parse_polyline(sites[iter].object_stream).ok
        /\ ~parse_relationship(sites[iter].tooltip).ok)
       => ret.tag = "Ok"

\* a site of the list was reached and its stream was read into the buffer
SiteWasRead ==
    /\ pc \in {"loop", "done"}
    /\ iter >= 1
    /\ sites[iter].readable

\* the trailing bytes of a Polyline payload, found in the payload itself:
\* what follows the two words, the points, the end caps, the color, the
\* blob, the label references and the unknown byte
OwnTrailing(stream) ==
    Drop(stream,
         4 + 8 * LeU16(stream).val + 8 + 4 + 16 + 4
           + 24 * ToUsize(LeU32(Drop(stream, 32 + 8 * LeU16(stream).val)).val)
           + 1)

\* C29: each site's decode reads its own byte window.  When a decoder is
\* invoked for a site, the shared buffer holds exactly the bytes of that
\* site's stream, however long the streams read before it were, and the
\* decoder's input is that buffer; the Control of every site, the trailing
\* bytes of a Polyline included, is the one its own payload gives, whatever
\* the other sites of the form are.
C29_OwnByteWindow ==
    /\ SiteWasRead =>
           /\ buf = sites[iter].object_stream
           /\ Len(buf) = Len(sites[iter].object_stream)
    /\ (SiteWasRead /\ sites[iter].class = "ControlNonCached") =>
           input = buf
    /\ LastSiteDecoded => result = SiteOutcome(sites[iter])
    /\ \A j, k \in 1..Len(controls) :
           SameBytes(sites[j], sites[k]) => controls[j][2] = controls[k][2]
    /\ \A k \in 1..Len(controls) :
           /\ controls[k][2].v = SiteOutcome(sites[k]).val
           /\ controls[k][2].tag = "Polyline" =>
                  /\ controls[k][2].v.rest
                         = OwnTrailing(sites[k].object_stream)
                  /\ Len(controls[k][2].v.rest)
                         < Len(sites[k].object_stream)

\* a long Grid payload, then a shorter Polyline payload with two trailing
\* bytes, then a still shorter Label payload
C29_Witness ==
    /\ pc = "done"
    /\ ret.tag = "Ok"
    /\ Len(sites) = 3
    /\ Len(ret.controls) = 3
    /\ <<sites[1].id, sites[2].id, sites[3].id>> = <<1, 3, 5>>
    /\ Len(sites[1].object_stream) > Len(sites[2].object_stream)
    /\ Len(sites[2].object_stream) > Len(sites[3].object_stream)
    /\ buf = sites[3].object_stream
    /\ ret.controls[2][2].tag = "Polyline"
    /\ ret.controls[2][2].v.rest = <<7, 8>>
    /\ ret.controls[3][2].tag = "Label"

(***************************************************************************)
(* Properties of the DsRef tree decoder.                                   *)
(***************************************************************************)
\* the k-th little-endian u32 of the input
InputWord(k) == LeU32(Drop(input, 4 * (k - 1))).val

RECURSIVE ChainOk(_)
\* the children of every node are there iff HASFIRSTCHILD is set, and in
\* each child list HASNEXTSIBLING is set on all but the last child
ChainOk(node) ==
    /\ (node.children # <<>>) <=> Contains(node.flags, HASFIRSTCHILD)
    /\ \A k \in 1..Len(node.children) :
           /\ Contains(node.children[k].flags, HASNEXTSIBLING)
                  <=> (k < Len(node.children))
           /\ ChainOk(node.children[k])

RECURSIVE PreOrder(_)
RECURSIVE PreOrderAll(_)
\* the flag words of a tree, parent first, children left to right
PreOrder(node) == <<node.flags>> \o PreOrderAll(node.children)

PreOrderAll(nodes) ==
    IF nodes = <<>> THEN <<>>
    ELSE PreOrder(nodes[1]) \o PreOrderAll(Tail(nodes))

\* the number of bytes the decoder consumed
Consumed == Len(input) - Len(result.rest)

\* C4: a node has children iff its HASFIRSTCHILD bit is set, and a child
\* is followed by another iff its HASNEXTSIBLING bit is set: the child list
\* ends at the first child with the bit clear (0 children when
\* HASFIRSTCHILD is clear, N when the bit is set on the first N-1 children
\* and clear on the N-th), and the nodes are those of the stream, in stream
\* order.
C4_SiblingChain ==
    (decoder = "parse_dsref_node" /\ result.ok) =>
        /\ ChainOk(result.val)
        /\ (Consumed = 4 * Len(PreOrder(result.val))) =>
               PreOrder(result.val)
                   = [k \in 1..(Consumed \div 4) |-> InputWord(k)]

C4_Witness ==
    /\ decoder = "parse_dsref_node"
    /\ result.ok
    /\ input = WordB(<<1, 2048>>) \o WordB(<<2, 512>>) \o WordB(<<3, 32768>>)
               \o WordB(<<0, 512>>) \o WordB(<<0, 512>>)
    /\ Len(result.val.children) = 3
    /\ Len(result.val.children[1].children) = 0
    /\ Len(result.val.children[2].children) = 1
    /\ result.rest = <<>>

\* n nodes decoded back to back, starting where s stands
RECURSIVE CountNodes(_, _)
CountNodes(n, s) ==
    IF n = 0 \/ ~s.ok THEN s ELSE CountNodes(n - 1, Then(s, parse_dsref_node))

\* the bytes after a field that is there iff the flag b is set and that
\* takes n bytes
After(b, n, i) == IF b THEN Drop(i, n) ELSE i

\* the bytes a byte-count-prefixed string takes: the prefix and its count
StringSpan(i) == 4 + LeU32(i).val[2]

RECURSIVE InReadOrder(_, _, _)
\* node is what the stream i holds in the order flags, extended type, name,
\* owner, children with their subtrees, properties, and rest is what
\* follows the properties; likewise for every child in its own window
InReadOrder(node, i, rest) ==
    LET flags == LeU32(i).val
        a1 == Drop(i, 4)
        a2 == After(Contains(flags, EXTENDED), 16, a1)
        a3 == After(Contains(flags, HASNAME), StringSpan(a2), a2)
        a4 == After(Contains(flags, HASOWNER), StringSpan(a3), a3)
        kids(k) == CountNodes(k, Start(a4))
        a5 == kids(Len(node.children)).rest
    IN  /\ node.flags = flags
        /\ node.extended_type = CondGuid(Contains(flags, EXTENDED), a1).val
        /\ node.name = CondString(Contains(flags, HASNAME), a2).val
        /\ node.owner = CondString(Contains(flags, HASOWNER), a3).val
        /\ kids(Len(node.children)).ok
        /\ kids(Len(node.children)).val = node.children
        /\ \A k \in 1..Len(node.children) :
               InReadOrder(node.children[k], kids(k - 1).rest, kids(k).rest)
        /\ CondProperties(Contains(flags, HASPROP), a5)
               = Ok(rest, node.properties)
        /\ Len(a1) = Len(i) - 4
        /\ (Len(a2) < Len(a1)) <=> Contains(flags, EXTENDED)
        /\ (Len(a3) < Len(a2)) <=> Contains(flags, HASNAME)
        /\ (Len(a4) < Len(a3)) <=> Contains(flags, HASOWNER)
        /\ (Len(a5) < Len(a4)) <=> Contains(flags, HASFIRSTCHILD)
        /\ (Len(rest) < Len(a5)) <=> Contains(flags, HASPROP)

\* C21: a node is read as flags, then the extended-type GUID, then the
\* name, then the owner, then the whole child chain (each child with its
\* entire subtree), then the node's own property map, so the properties of
\* a node are read after all of its descendants; each optional field
\* takes bytes iff its flag bit is set.
C21_NodeReadOrder ==
    (decoder = "parse_dsref_node" /\ result.ok) =>
        InReadOrder(result.val, input, result.rest)

C21_Witness ==
    /\ decoder = "parse_dsref_node"
    /\ result.ok
    /\ input = OrderNode
    /\ result.rest = <<>>
    /\ Len(result.val.children) = 1
    /\ Len(result.val.children[1].children) = 1
    /\ result.val.children[1].properties
           = <<parse_dsref_properties(
                   <<1, 0, 0, 0>> \o Guid1 \o <<11, 0, 255, 255>>).val>>
    /\ result.val.properties
           = <<parse_dsref_properties(
                   <<1, 0, 0, 0>> \o Guid1 \o <<11, 0, 0, 0>>).val>>
    /\ result.val.properties # result.val.children[1].properties

\* n (GUID, Variant) pairs decoded back to back, starting where s stands
RECURSIVE CountPairs(_, _)
CountPairs(n, s) ==
    IF n = 0 \/ ~s.ok THEN s ELSE CountPairs(n - 1, Then(s, PropertyEntry))

\* the 32-bit count the property map starts with
PropCount == LeU32(input).val[2]

\* the pairs of the stream, in file order: each is <<GUID, Variant>>
FilePairs == CountPairs(PropCount, Start(Drop(input, 4)))

\* the last position at which the key g occurs in the pairs ps
LastOf(g, ps) ==
    CHOOSE k \in 1..Len(ps) :
        /\ ps[k][1] = g
        /\ \A j \in (k + 1)..Len(ps) : ps[j][1] # g

\* C22: the property map is a 32-bit count followed by exactly that many
\* (GUID, Variant) pairs in file order; the map has at most count entries,
\* holds every GUID that occurs and, for a GUID that occurs more than once,
\* the value of its last occurrence; a count of 0 gives an empty map that
\* is present.
C22_PropertyMap ==
    /\ (decoder = "parse_dsref_properties" /\ result.ok) =>
           /\ LeU32(input).val[1] = 0
           /\ FilePairs.ok
           /\ Len(FilePairs.val) = PropCount
           /\ result.rest = FilePairs.rest
           /\ DOMAIN result.val
                  = {FilePairs.val[k][1] : k \in 1..PropCount}
           /\ Cardinality(DOMAIN result.val) <= PropCount
           /\ \A g \in DOMAIN result.val :
                  result.val[g]
                      = FilePairs.val[LastOf(g, FilePairs.val)][2]
           /\ (PropCount = 0) =>
                  (result.val = <<>> /\ result.rest = Drop(input, 4))
    /\ (/\ decoder = "parse_dsref_node"
        /\ result.ok
        /\ input = WordB(<<64, 512>>) \o U32B(0) \o result.rest)
       => (result.val.properties = <<<<>>>>
           /\ result.val.properties # <<>>)

C22_Witness ==
    /\ decoder = "parse_dsref_properties"
    /\ result.ok
    /\ input = U32B(3) \o Guid1 \o <<11, 0, 255, 255>>
                       \o Guid2 \o <<8, 0>> \o StrA
                       \o Guid1 \o <<11, 0, 0, 0>>
    /\ result.rest = <<>>
    /\ Cardinality(DOMAIN result.val) = 2
    /\ result.val[parse_guid(Guid1).val] = BoolFromU16(0)[1]
    /\ result.val[parse_guid(Guid2).val] = BStr(<<65>>)

\* a count of 0 inside a node: the map is there and empty
C22_WitnessEmpty ==
    /\ decoder = "parse_dsref_node"
    /\ result.ok
    /\ input = WordB(<<64, 512>>) \o U32B(0)
    /\ result.val.properties = <<<<>>>>

\* the flag word of the input, as <<hi, lo>>
FlagWordPresent == Len(input) >= 4

FlagWord == LeU32(input).val

\* a bit of the word belongs to no named flag: the named flags cover
\* 0xFFFFFF17, so the bits left are 0x08, 0x20, 0x40 and 0x80
HasUnnamedBit(w) ==
    \E b \in {8, 32, 64, 128} : (w[2] \div b) % 2 = 1

\* a bit of the word announces a field or a child
HasFieldBit(w) ==
    \E f \in {EXTENDED, HASNAME, HASOWNER, HASFIRSTCHILD, HASPROP} :
        Contains(w, f)

\* the word without its HASMONIKER bit
WithoutMoniker(w) == <<w[1] - 8, w[2]>>

\* C23: the node decoder fails for every flag word that has a bit set
\* that is part of no named DsRefType flag (the union of the named
\* constants, the NODE mask included); for every accepted word the decoded
\* flags equal the word bit for bit; a word with HASMONIKER is accepted
\* and no moniker bytes are consumed for it: the decode goes on as it does
\* for the same word without the bit.
C23_FlagMask ==
    (decoder = "parse_dsref_node" /\ FlagWordPresent) =>
        /\ HasUnnamedBit(FlagWord) => result = Fail("Error(MapOpt)")
        /\ result.ok =>
               (~HasUnnamedBit(FlagWord) /\ result.val.flags = FlagWord)
        /\ (~HasUnnamedBit(FlagWord) /\ ~HasFieldBit(FlagWord)) =>
               result = Ok(Drop(input, 4),
                           [flags |-> FlagWord, extended_type |-> <<>>,
                            name |-> <<>>, owner |-> <<>>,
                            children |-> <<>>, properties |-> <<>>])
        /\ (~HasUnnamedBit(FlagWord) /\ Contains(FlagWord, HASMONIKER)) =>
               LET plain == parse_dsref_node(
                                WordB(WithoutMoniker(FlagWord))
                                \o Drop(input, 4))
               IN  /\ result.ok = plain.ok
                   /\ ~result.ok => result = plain
                   /\ result.ok =>
                          /\ result.rest = plain.rest
                          /\ result.val
                                 = [plain.val EXCEPT !.flags = FlagWord]

\* a word with HASMONIKER and HASNAME: the name follows the word at once
C23_Witness ==
    /\ decoder = "parse_dsref_node"
    /\ input = WordB(<<12, 512>>) \o StrA
    /\ result.ok
    /\ result.val.flags = <<12, 512>>
    /\ Contains(result.val.flags, HASMONIKER)
    /\ result.val.name = <<<<65>>>>
    /\ result.rest = <<>>

\* a word with one unnamed bit, refused with its tail unread
C23_WitnessRefused ==
    /\ decoder = "parse_dsref_node"
    /\ input = WordB(<<0, 520>>) \o StrA
    /\ result = Fail("Error(MapOpt)")

\* the 32-bit length prefix of a string
Prefix == LeU32(input).val

\* the decode consumed the prefix and len bytes after it, the last two of
\* them zero, and returned the code units of the bytes before those two
ReadsExactly(len) ==
    /\ result.ok
    /\ len >= 2
    /\ Len(input) >= 4 + len
    /\ result.rest = Drop(input, 4 + len)
    /\ result.val = Units(SubSeq(input, 5, 4 + len - 2))
    /\ SubSeq(input, 4 + len - 1, 4 + len) = <<0, 0>>

\* C27: for every 32-bit prefix len of a byte-count-prefixed string, 0, 1
\* and values beyond the remaining input included, the decoder either
\* consumes exactly 4 + len bytes and returns the UTF-16LE decoding of the
\* first len - 2 payload bytes, the last two being 0x0000, or returns an
\* error value; the length arithmetic does not underflow and the call
\* never panics.
C27_ByteCountString ==
    decoder = "parse_u32_bytes_wstring_nt" =>
        /\ ~IsPanic(result)
        /\ \/ IsErr(result)
           \/ /\ Len(input) >= 4
              /\ FitsUsize(Prefix)
              /\ ReadsExactly(ToUsize(Prefix))
        /\ (Len(input) >= 4 /\ Sub2(Prefix) = <<>>) => IsErr(result)

\* C28: for every 32-bit character count n of a character-count-prefixed
\* string, 0 and values of 2^31 or more included, the decoder either
\* consumes exactly 4 + 2 * n bytes and returns the UTF-16LE decoding of
\* the first 2 * n - 2 payload bytes, the terminator being 0x0000, or
\* returns an error value; the multiplication by 2 and the subtraction do
\* not wrap around 32 bits into a shorter read and the call never panics.
C28_CharCountString ==
    decoder = "parse_u32_wstring_nt" =>
        /\ ~IsPanic(result)
        /\ \/ IsErr(result)
           \/ /\ Len(input) >= 4
              /\ Prefix[1] < 16384
              /\ ReadsExactly(2 * ToUsize(Prefix))

RECURSIVE Coupled(_)
\* each optional field of a node is present iff its flag is set, at every
\* depth
Coupled(node) ==
    /\ (node.name # <<>>) <=> Contains(node.flags, HASNAME)
    /\ (node.owner # <<>>) <=> Contains(node.flags, HASOWNER)
    /\ (node.properties # <<>>) <=> Contains(node.flags, HASPROP)
    /\ (node.extended_type # <<>>) <=> Contains(node.flags, EXTENDED)
    /\ (node.children # <<>>) <=> Contains(node.flags, HASFIRSTCHILD)
    /\ \A k \in 1..Len(node.children) : Coupled(node.children[k])

\* C5: in every node the decoder returns, at every depth, name, owner,
\* properties and extended_type are present iff the flags contain HASNAME,
\* HASOWNER, HASPROP and EXTENDED, and children is non-empty iff the flags
\* contain HASFIRSTCHILD.
C5_FlagFieldCoupling ==
    /\ (decoder = "parse_dsref_node" /\ result.ok) => Coupled(result.val)
    /\ (decoder = "parse_dsref_schema_contents" /\ result.ok) =>
           Coupled(result.val.root_node)

C5_Witness ==
    /\ decoder = "parse_dsref_node"
    /\ result.ok
    /\ input = WordB(<<1, 2048>>) \o FullNode
    /\ Len(result.val.children) = 1
    /\ result.val.name = <<>>
    /\ result.val.children[1].name = <<<<65>>>>
    /\ result.val.children[1].owner = <<<<65>>>>
    /\ result.val.children[1].extended_type # <<>>
    /\ result.val.children[1].properties # <<>>
    /\ Len(result.val.children[1].children) = 1

NodeFields ==
    {"flags", "extended_type", "name", "owner", "children", "properties"}

RECURSIVE FullNodeValue(_)
\* a node with all of its fields, each child included
FullNodeValue(node) ==
    /\ DOMAIN node = NodeFields
    /\ \A k \in 1..Len(node.children) : FullNodeValue(node.children[k])

\* the input is a flag word with HASFIRSTCHILD and none of EXTENDED,
\* HASNAME and HASOWNER, so that the first child starts at byte 4
ChildAtFour ==
    /\ Len(input) >= 4
    /\ DsRefTypeFromBits(InputWord(1)) # <<>>
    /\ Contains(InputWord(1), HASFIRSTCHILD)
    /\ ~Contains(InputWord(1), EXTENDED)
    /\ ~Contains(InputWord(1), HASNAME)
    /\ ~Contains(InputWord(1), HASOWNER)

\* C18: a decode of a DsRef node or of the schema contents returns either
\* a fully populated entity (every field of every node, each optional field
\* as its flag says) or an error value and no entity; the error of a failing
\* child is the error of the decode of the enclosing node.
C18_NoPartialEntity ==
    /\ (decoder = "parse_dsref_node") =>
           \/ result.ok /\ FullNodeValue(result.val) /\ Coupled(result.val)
           \/ IsErr(result) /\ result.val = <<>>
    /\ (decoder = "parse_dsref_schema_contents") =>
           \/ /\ result.ok
              /\ DOMAIN result.val
                     = {"clsid", "len", "a", "timestamp", "b", "root_node"}
              /\ FullNodeValue(result.val.root_node)
              /\ Coupled(result.val.root_node)
           \/ IsErr(result) /\ result.val = <<>>
    /\ (decoder = "parse_dsref_node" /\ ChildAtFour
        /\ ~parse_dsref_node(Drop(input, 4)).ok) =>
           /\ IsErr(result)
           /\ result = parse_dsref_node(Drop(input, 4))

\* every decoded node stands for at least the 4 bytes of its own flag
\* word: the nodes of a returned tree are at most a quarter of the bytes
\* the decode consumed, and no node is decoded from fewer than 4 bytes
NodesShrinkInput ==
    /\ (decoder = "parse_dsref_node") =>
           /\ (Len(input) < 4) => ~result.ok
           /\ result.ok =>
                  /\ Consumed >= 4 * Len(PreOrder(result.val))
                  /\ Len(result.rest) <= Len(input) - 4
    /\ (decoder = "parse_dsref_schema_contents") =>
           /\ (Len(input) < 36) => ~result.ok
           /\ result.ok =>
                  Consumed >= 32 + 4 * Len(PreOrder(result.val.root_node))

\* C30: DsRef decoding terminates on every finite input.  Each node
\* consumes at least the 4 bytes of its flag word before any child is
\* decoded, so the child loop and the recursion strictly shrink the input,
\* and parse_dsref_node and parse_dsref_schema_contents end with a value or
\* an error for every byte sequence, chains in which every node has
\* HASFIRSTCHILD and HASNEXTSIBLING set included.
C30_DecodingTerminates ==
    /\ NodesShrinkInput
    /\ (decoder \in {"parse_dsref_node", "parse_dsref_schema_contents"}) =>
           (result.ok \/ IsErr(result))

(***************************************************************************)
(* Properties of the timestamp conversion.  Natural numbers of any size    *)
(* are sequences of 16-bit limbs, the least significant first.             *)
(***************************************************************************)
NatOfU64(w) == <<w[4], w[3], w[2], w[1]>>

Limb0(a) == IF a = <<>> THEN 0 ELSE a[1]

Rest0(a) == IF a = <<>> THEN <<>> ELSE Tail(a)

RECURSIVE NatAdd(_, _, _)
NatAdd(a, b, carry) ==
    IF a = <<>> /\ b = <<>> THEN (IF carry = 0 THEN <<>> ELSE <<carry>>)
    ELSE <<(Limb0(a) + Limb0(b) + carry) % 65536>>
         \o NatAdd(Rest0(a), Rest0(b), (Limb0(a) + Limb0(b) + carry) \div 65536)

\* a * m + carry for m up to 10000
RECURSIVE NatMul(_, _, _)
NatMul(a, m, carry) ==
    IF a = <<>> THEN (IF carry = 0 THEN <<>> ELSE <<carry>>)
    ELSE <<(a[1] * m + carry) % 65536>>
         \o NatMul(Tail(a), m, (a[1] * m + carry) \div 65536)

\* a * 10,000,000
NatTimesTick(a) == NatMul(NatMul(a, 10000, 0), 1000, 0)

RECURSIVE Strip(_)
Strip(a) ==
    IF a # <<>> /\ a[Len(a)] = 0 THEN Strip(SubSeq(a, 1, Len(a) - 1)) ELSE a

NatLessStripped(x, y) ==
    \/ Len(x) < Len(y)
    \/ /\ Len(x) = Len(y)
       /\ \E k \in 1..Len(x) :
              x[k] < y[k] /\ \A j \in (k + 1)..Len(x) : x[j] = y[j]

NatLess(a, b) == NatLessStripped(Strip(a), Strip(b))

\* the 64-bit tick value of the schema contents, 20 bytes into the input
Ticks == LeU64(Drop(input, 20)).val

\* secs = floor(ticks / 10,000,000) - 11,644,473,600, stated without
\* division: (secs + 11,644,473,600) * 10^7 <= ticks
\*           < (secs + 11,644,473,600 + 1) * 10^7
IsUnixSeconds(secs, ticks) ==
    /\ ~NatLess(NatOfU64(ticks),
                NatTimesTick(NatAdd(NatOfU64(secs),
                                    NatOfU64(SEC_TO_UNIX_EPOCH), 0)))
    /\ NatLess(NatOfU64(ticks),
               NatTimesTick(NatAdd(NatOfU64(secs),
                                   NatOfU64(SEC_TO_UNIX_EPOCH), 1)))

\* C19: for every 64-bit tick value of a decoded timestamp get_time
\* returns floor(ticks / 10,000,000) - 11,644,473,600 as unsigned Unix
\* seconds; ticks = 116444736000000000 gives 0.
C19_TimestampConversion ==
    decoder = "get_time" =>
        /\ result.ok
        /\ IsUnixSeconds(result.val, Ticks)
        /\ (Ticks = <<413, 45534, 54590, 32768>>) =>
               result.val = <<0, 0, 0, 0>>

(***************************************************************************)
\* the 16-bit type tag at the head of the input
TypeTag == input[1] + 256 * input[2]

\* the 16-bit word after the type tag
ValueWord == input[3] + 256 * input[4]

\* Variant::Bool(b)
BoolVariant(b) == [tag |-> "Bool", v |-> IF b THEN <<1>> ELSE <<0>>]

\* C15: after a BOOL type tag parse_variant reads one 16-bit word and
\* returns Bool(false) for 0x0000 and Bool(true) for 0xFFFF, having consumed
\* the tag and the word; every other word makes the decode fail with an
\* error, and is never taken for true or false.
C15_VariantBool ==
    (decoder = "parse_variant" /\ Len(input) >= 4 /\ TypeTag = VT_BOOL) =>
        /\ (ValueWord = 0) =>
               result = Ok(Drop(input, 4), BoolVariant(FALSE))
        /\ (ValueWord = 65535) =>
               result = Ok(Drop(input, 4), BoolVariant(TRUE))
        /\ (ValueWord \notin {0, 65535}) => IsErr(result)

C15_Witness ==
    /\ decoder = "parse_variant"
    /\ input = <<11, 0, 255, 255, 7>>
    /\ result.ok
    /\ result.val = BoolVariant(TRUE)
    /\ result.rest = <<7>>

\* the word 0x0001 after a BOOL tag is refused
C15_WitnessRefused ==
    /\ decoder = "parse_variant"
    /\ input = <<11, 0, 1, 0>>
    /\ result.err = "Error(MapOpt)"

\* C16: for every 16-bit type tag other than BSTR and BOOL parse_variant
\* ends with a decode failure, an error value returned to the enclosing
\* property decode; it returns no Variant and skips nothing.
C16_VariantFailsClosed ==
    (decoder = "parse_variant" /\ Len(input) >= 2
     /\ TypeTag \notin {VT_BSTR, VT_BOOL}) => IsErr(result)

(***************************************************************************)
(* Properties of the Grid decoders.                                        *)
(***************************************************************************)
\* the little-endian u32 at a byte offset of the input
WordAt(off) == LeU32(Drop(input, off)).val

\* the first four bytes are not the control-extent magic
ControlMagicAltered ==
    Len(input) >= 4 /\ WordAt(0) # OLE_CONTROL_MAGIC

\* the four bytes after the extent record are not the frame magic
FrameMagicAltered ==
    Len(input) >= 20 /\ WordAt(16) # FRAME_MAGIC

\* C6: a Grid payload whose control-extent magic or frame magic differs
\* from the constant makes the Grid decoder return a parse error, never a
\* SchGrid.
C6_MagicGuard ==
    (/\ decoder \in {"parse_sch_grid", "parser_parse_sch_grid"}
     /\ ControlMagicAltered \/ FrameMagicAltered)
    => IsErr(result)

\* the version pair after the control-extent magic is not (8, 0)
ExtentVersionMismatch ==
    /\ Len(input) >= 8
    /\ WordAt(0) = OLE_CONTROL_MAGIC
    /\ PairU16(Drop(input, 4)).val # <<8, 0>>

\* the version pair after the frame magic is not (7, 0)
FrameVersionMismatch ==
    /\ Len(input) >= 24
    /\ WordAt(0) = OLE_CONTROL_MAGIC
    /\ PairU16(Drop(input, 4)).val = <<8, 0>>
    /\ WordAt(16) = FRAME_MAGIC
    /\ PairU16(Drop(input, 20)).val # <<7, 0>>

\* the version pair after the data-source magic is not (4, 0)
DataSourceVersionMismatch ==
    /\ Len(input) >= 8
    /\ WordAt(0) = FRAME_MAGIC
    /\ PairU16(Drop(input, 4)).val # <<4, 0>>

\* C7: a version pair that differs from the expected one ((8, 0) after the
\* control-extent magic, (7, 0) after the frame magic, (4, 0) after the
\* data-source magic) makes the decode call return an error value to its
\* caller.
C7_VersionPair ==
    /\ (decoder = "parse_sch_grid"
        /\ (ExtentVersionMismatch \/ FrameVersionMismatch)) => IsErr(result)
    /\ (decoder = "parse_data_source" /\ DataSourceVersionMismatch)
           => IsErr(result)

\* the byte offset of the first layout of a Grid payload
FirstLayoutAt == 28 + ToUsize(WordAt(24))

\* a layout at a byte offset: its width count sits 28 bytes in, its widths
\* 36 bytes in
CountAt(off) == WordAt(off + 28)

WidthAt(off, k) == WordAt(off + 36 + 4 * (k - 1))

\* the layout at off holds exactly the declared number of widths, which
\* are the words that follow the count
HoldsDeclared(layout, off) ==
    /\ FitsUsize(CountAt(off))
    /\ Len(layout.v5.v2) = ToUsize(CountAt(off))
    /\ \A k \in 1..Len(layout.v5.v2) : layout.v5.v2[k] = WidthAt(off, k)

\* fewer than the declared number of words follow the count of the layout
\* at the head of the input
TooFewWidths ==
    /\ Len(input) >= 36
    /\ ~FitsUsize(CountAt(0))
         \/ (Len(input) - 36) \div 4 < ToUsize(CountAt(0))

\* C8: a layout the Grid decoder returns holds exactly as many widths as
\* the count read from the stream before them; when fewer words remain the
\* layout decode fails instead of returning a shorter array.
C8_ColumnWidths ==
    /\ (decoder = "parse_sch_grid_inner4" /\ result.ok) =>
           HoldsDeclared(result.val, 0)
    /\ (decoder = "parse_sch_grid_inner4" /\ TooFewWidths) => IsErr(result)
    /\ (decoder = "parse_sch_grid" /\ result.ok) =>
           HoldsDeclared(result.val.frame.d5, FirstLayoutAt)

C8_Witness ==
    /\ decoder = "parse_sch_grid_inner4"
    /\ result.ok
    /\ CountAt(0) = <<0, 2>>
    /\ result.val.v5.v2 = <<<<0, 120>>, <<1, 4464>>>>
    /\ result.rest = <<7, 0, 0, 0>>

\* the byte offset of the k-th record after the caption: the first layout
\* for k = 1, and each next record where the one before it ended, after
\* its 36 bytes and its declared number of widths
RECURSIVE LayoutAt(_)
LayoutAt(k) ==
    IF k = 1 THEN FirstLayoutAt
    ELSE LayoutAt(k - 1) + 36 + 4 * ToUsize(CountAt(LayoutAt(k - 1)))

\* the layouts of a decoded Grid by role: primary, columns, keys, x2, x3
ByRole(grid) ==
    <<grid.frame.d5, grid.frame.cols, grid.frame.keys, grid.frame.x2,
      grid.frame.x3>>

\* C24: the Grid decoder reads exactly five layouts after the caption,
\* back to back, and assigns them by position: the 1st is the primary
\* layout (_d5), the 2nd columns, the 3rd keys, the 4th x2, the 5th x3;
\* each layout starts where the one before it ended, after its declared
\* number of column widths, and the data-source record follows the fifth.
C24_FiveLayouts ==
    (decoder = "parse_sch_grid" /\ result.ok) =>
        /\ \A k \in 1..5 :
               /\ parse_sch_grid_inner4(Drop(input, LayoutAt(k)))
                      = Ok(Drop(input, LayoutAt(k + 1)), ByRole(result.val)[k])
               /\ HoldsDeclared(ByRole(result.val)[k], LayoutAt(k))
        /\ result.val.frame.cols
               = parse_sch_grid_inner4(Drop(input, LayoutAt(2))).val
        /\ result.val.frame.keys
               = parse_sch_grid_inner4(Drop(input, LayoutAt(3))).val
        /\ WordAt(LayoutAt(6)) = FRAME_MAGIC
        /\ parse_data_source(Drop(input, LayoutAt(6)))
               = Ok(result.rest, result.val.data_source)

C24_Witness ==
    /\ decoder = "parse_sch_grid"
    /\ result.ok
    /\ input = GridB(GridFive)
    /\ result.val.frame.d5.v5.v2 = <<<<0, 120>>>>
    /\ result.val.frame.cols.v5.v2 = <<<<1, 4464>>, <<0, 0>>>>
    /\ result.val.frame.keys.v5.v2 = <<>>
    /\ result.val.frame.x2.v5.v2 = <<<<0, 0>>>>
    /\ result.val.frame.x3.v5.v2 = <<<<0, 120>>, <<0, 120>>>>
    /\ LayoutAt(6) - LayoutAt(1) = 5 * 36 + 4 * 6

\* the UTF-16 code unit at a byte offset of the input
UnitAt(off) == input[off + 1] + 256 * input[off + 2]

\* the string of n code units, the last of them the terminator, whose
\* count sits at off
StringAt(off, n) == [k \in 1..(n - 1) |-> UnitAt(off + 4 + 2 * (k - 1))]

\* a data-source record at off: the magic, four words (the version pair,
\* the byte length of what follows, and two words that are stored as they
\* are), the count and the indices, then the schema and the table strings
SelectedCountAt(off) == ToUsize(WordAt(off + 20))

SchemaAt(off) == off + 24 + 4 * SelectedCountAt(off)

\* the schema name as the string decoder reads it at its place
SchemaString(off) == parse_u32_wstring_nt(Drop(input, SchemaAt(off)))

\* the table name starts where the schema name ended
TableAt(off) == Len(input) - Len(SchemaString(off).rest)

TableString(off) == parse_u32_wstring_nt(Drop(input, TableAt(off)))

RecordEnd(off) == off + 12 + ToUsize(WordAt(off + 8))

\* a character count that is small enough to be taken at its word
PlainCount(w) == w[1] = 0 /\ w[2] >= 1

DataSourceAt(ds, off, rest) ==
    /\ WordAt(off) = FRAME_MAGIC
    /\ ds.cd3 = WordAt(off + 12)
    /\ ds.cd4 = WordAt(off + 16)
    /\ FitsUsize(WordAt(off + 20))
    /\ Len(ds.d14) = SelectedCountAt(off)
    /\ \A k \in 1..Len(ds.d14) : ds.d14[k] = WordAt(off + 24 + 4 * (k - 1))
    /\ SchemaString(off).ok
    /\ ds.schema = SchemaString(off).val
    /\ PlainCount(WordAt(SchemaAt(off))) =>
           /\ ds.schema
                  = StringAt(SchemaAt(off), ToUsize(WordAt(SchemaAt(off))))
           /\ TableAt(off)
                  = SchemaAt(off) + 4 + 2 * ToUsize(WordAt(SchemaAt(off)))
    /\ SchemaAt(off) < TableAt(off)
    /\ TableString(off).ok
    /\ ds.table = TableString(off).val
    /\ PlainCount(WordAt(TableAt(off))) =>
           ds.table = StringAt(TableAt(off), ToUsize(WordAt(TableAt(off))))
    /\ Len(input) - Len(TableString(off).rest) <= RecordEnd(off)
    /\ rest = Drop(input, RecordEnd(off))

\* C25: after the five layouts the Grid decoder reads a second record
\* guarded by the magic 0x12345678 that holds four 32-bit fields, then an
\* array of selected-column indices with a 32-bit count whose decoded
\* length equals the count, then the schema name and after it the table
\* name, both prefixed by their character count; schema and table get the
\* bytes of the stream in that order.
C25_DataSourceRecord ==
    /\ (decoder = "parse_data_source" /\ result.ok) =>
           DataSourceAt(result.val, 0, result.rest)
    /\ (decoder = "parse_sch_grid" /\ result.ok) =>
           DataSourceAt(result.val.data_source, LayoutAt(6), result.rest)

C25_Witness ==
    /\ decoder = "parse_sch_grid"
    /\ result.ok
    /\ input = GridB(GridDefaults)
    /\ result.val.data_source.d14 = <<<<0, 0>>, <<0, 1>>>>
    /\ result.val.data_source.schema = <<100, 98, 111>>
    /\ result.val.data_source.table = <<84>>
    /\ TableAt(LayoutAt(6)) = SchemaAt(LayoutAt(6)) + 12
    /\ result.rest = <<>>

\* the input is the well-formed Grid payload with bytes missing at its end
TruncatedGrid ==
    /\ Len(input) < Len(GridB(GridDefaults))
    /\ input = SubSeq(GridB(GridDefaults), 1, Len(input))

\* C17: when a decoder needs more bytes for a fixed-width or
\* length-prefixed field than remain in the input, no value is returned and
\* the error surfaced to the caller is the Incomplete kind, not ParseError
\* or ParseFailure.
C17_TruncationIncomplete ==
    (decoder = "parse_sch_grid" /\ TruncatedGrid) =>
        /\ ~result.ok
        /\ ErrorFrom(result.err) = "Incomplete"

(***************************************************************************)
(* Properties of the Polyline decoders.                                    *)
(***************************************************************************)
PolylineDecoders == {"parse_polyline", "parser_parse_polyline"}

\* the 16-bit point count at the head of the payload
EncodedCount == input[1] + 256 * input[2]

\* a signed 32-bit little-endian value read at a byte offset of the payload
I32At(off) ==
    input[off + 1] + 256 * input[off + 2] + 65536 * input[off + 3]
    + 16777216 * (IF input[off + 4] >= 128 THEN input[off + 4] - 256
                  ELSE input[off + 4])

\* the k-th point encoded after the count and the unknown word
EncodedPoint(k) ==
    [left |-> I32At(4 + 8 * (k - 1)), top |-> I32At(8 + 8 * (k - 1))]

\* C9: a decoded Polyline whose point count n is at least 1 has exactly n
\* positions, the k-th being the k-th encoded point; in particular its first
\* and last positions are the first and last encoded points.
C9_EndpointExtraction ==
    (decoder \in PolylineDecoders /\ result.ok /\ EncodedCount >= 1) =>
        /\ Len(result.val.positions) = EncodedCount
        /\ \A k \in 1..EncodedCount : result.val.positions[k] = EncodedPoint(k)
        /\ result.val.positions[1] = EncodedPoint(1)
        /\ result.val.positions[Len(result.val.positions)]
               = EncodedPoint(EncodedCount)

C9_Witness ==
    /\ decoder = "parse_polyline" /\ result.ok
    /\ EncodedCount = 3
    /\ result.val.positions
           = <<[left |-> 0, top |-> 0], [left |-> 500, top |-> 500],
               [left |-> 1000, top |-> 0]>>

\* C10: every Polyline the decoder returns has at least one point, and the
\* renderer's first/last point of a decoded Polyline is always defined.
C10_PointsNonEmpty ==
    /\ (decoder \in PolylineDecoders /\ result.ok) =>
           Len(result.val.positions) >= 1
    /\ decoder = "generate_svg" => ~IsPanic(result)

\* byte offsets of a Polyline payload: the 16-byte blob after the points,
\* the two end caps and the color, then the label count, the label
\* references of 24 bytes each, and the unknown byte
BlobAt == 16 + 8 * EncodedCount

LabelCountAt == BlobAt + 16

LabelCount == ToUsize(LeU32(Drop(input, LabelCountAt)).val)

UnknownByteAt == LabelCountAt + 4 + 24 * LabelCount

\* C26: after the label-reference array, whose decoded length equals its
\* 32-bit count, and one unknown byte, the Polyline decoder keeps every
\* remaining byte of the payload, unchanged and in order, as the trailing
\* field: a successful decode leaves an empty remainder and the trailing
\* field may be empty; the 16-byte blob before the label array is stored
\* unchanged.
C26_TrailingData ==
    (decoder = "parse_polyline" /\ result.ok) =>
        /\ result.rest = <<>>
        /\ result.val.x1 = SubSeq(input, BlobAt + 1, BlobAt + 16)
        /\ Len(result.val.labels) = LabelCount
        /\ \A k \in 1..LabelCount :
               result.val.labels[k]
                   = parse_label_ref(
                         Drop(input, LabelCountAt + 4 + 24 * (k - 1))).val
        /\ Len(input) >= UnknownByteAt + 1
        /\ result.val.d7 = input[UnknownByteAt + 1]
        /\ result.val.rest = Drop(input, UnknownByteAt + 1)
        /\ Len(result.val.rest) = Len(input) - UnknownByteAt - 1

\* one label reference, the unknown byte and one trailing byte
C26_Witness ==
    /\ decoder = "parse_polyline"
    /\ result.ok
    /\ EncodedCount = 2
    /\ LabelCount = 1
    /\ Len(result.val.labels) = 1
    /\ result.val.x1 = BlobB
    /\ result.val.d7 = 63
    /\ result.val.rest = <<7>>
    /\ result.rest = <<>>

\* the payload ends with the unknown byte: the trailing field is empty
C26_WitnessEmpty ==
    /\ decoder = "parse_polyline"
    /\ result.ok
    /\ Len(input) = UnknownByteAt + 1
    /\ result.val.rest = <<>>

\* the byte offset of the source end-cap word: after the count, the unknown
\* word and the declared number of points
EndCapsAt == 4 + 8 * EncodedCount

\* the payload holds the declared points and both end-cap words
EndCapsPresent == Len(input) >= 2 /\ Len(input) >= EndCapsAt + 8

\* the closed set of end-cap values: 0..18 and 99
InEndCapSet(w) == w[1] = 0 /\ (w[2] \in 0..18 \/ w[2] = 99)

\* C11: parse_polyline succeeds only if both end-cap words (source, then
\* destination) are in {0..18, 99}, and then the decoded enumerants are those
\* values; a word outside the set in either position makes the decode fail
\* with an error, and no default enumerant stands in for it.
C11_EndCapClosedSet ==
    (decoder = "parse_polyline" /\ EndCapsPresent) =>
        /\ result.ok =>
               /\ InEndCapSet(WordAt(EndCapsAt))
               /\ InEndCapSet(WordAt(EndCapsAt + 4))
               /\ result.val.end_type_src = ToUsize(WordAt(EndCapsAt))
               /\ result.val.end_type_dest = ToUsize(WordAt(EndCapsAt + 4))
        /\ (~InEndCapSet(WordAt(EndCapsAt))
              \/ ~InEndCapSet(WordAt(EndCapsAt + 4))) => IsErr(result)

C11_Witness ==
    /\ decoder = "parse_polyline"
    /\ result.ok
    /\ WordAt(EndCapsAt) = <<0, 18>>
    /\ WordAt(EndCapsAt + 4) = <<0, 99>>
    /\ result.val.end_type_src = 18
    /\ result.val.end_type_dest = 99

\* a payload whose destination end cap is 0x00010002 is refused
C11_WitnessRefused ==
    /\ decoder = "parse_polyline"
    /\ EndCapsPresent
    /\ WordAt(EndCapsAt) = <<0, 2>>
    /\ WordAt(EndCapsAt + 4) = <<1, 2>>
    /\ result.err = "Error(MapOpt)"

(***************************************************************************)
(* Properties of the Label decoder.                                        *)
(***************************************************************************)
\* the 16-bit flag word of a Label payload sits 30 bytes in: after d1, the
\* size, six bytes, two colours, the justification and d3
LabelFlagWordPresent == Len(input) >= 32

LabelFlagWord == input[31] + 256 * input[32]

\* READ_ONLY, ALIGN_TOP, AUTO_SIZE, DELETE_EMPTY, WORD_WRAP, TRANSPARENT
LabelFlagNames == {1, 2, 4, 8, 16, 32}

\* the word has a bit set that is none of the six named flags
HasUnknownLabelBit(w) ==
    \E b \in 0..15 : (w \div 2 ^ b) % 2 = 1 /\ 2 ^ b \notin LabelFlagNames

\* C12: parse_label succeeds only if the 16-bit flag word has no bit set
\* outside the six recognized flags (mask 0x003F); a word with any other
\* bit set makes the decode fail with an error, and for an accepted word the
\* decoded flags equal the word bit for bit.
C12_LabelFlagsExhaustive ==
    (decoder = "parse_label" /\ LabelFlagWordPresent) =>
        /\ result.ok =>
               /\ ~HasUnknownLabelBit(LabelFlagWord)
               /\ result.val.flags = LabelFlagWord
        /\ HasUnknownLabelBit(LabelFlagWord) => IsErr(result)

C12_Witness ==
    /\ decoder = "parse_label"
    /\ result.ok
    /\ LabelFlagWord = 42
    /\ result.val.flags = 42
    /\ result.val.text = <<70, 75>>

\* the six flags together with bit 6 are refused
C12_WitnessRefused ==
    /\ decoder = "parse_label"
    /\ LabelFlagWordPresent
    /\ LabelFlagWord = 127
    /\ result.err = "Error(MapOpt)"

(***************************************************************************)
(* Properties of the caption parser.                                       *)
(***************************************************************************)
\* t occurs in the input at index k
OccursAt(t, k) ==
    k >= 1 /\ k + Len(t) - 1 <= Len(input)
    /\ SubSeq(input, k, k + Len(t) - 1) = t

NoApostrophe(text) == \A k \in 1..Len(text) : text[k] # 39

\* the input is Relationship '<name>' between '<from>' and '<to>' with
\* the separators at a and b and the closing apostrophe at c
CaptionForm(a, b, c) ==
    /\ OccursAt(RelationshipPrefix, 1)
    /\ a >= Len(RelationshipPrefix) + 1
    /\ OccursAt(BetweenSeparator, a)
    /\ b >= a + Len(BetweenSeparator)
    /\ OccursAt(AndSeparator, b)
    /\ c >= b + Len(AndSeparator)
    /\ OccursAt(Apostrophe, c)
    /\ NoApostrophe(SubSeq(input, Len(RelationshipPrefix) + 1, a - 1))
    /\ NoApostrophe(SubSeq(input, a + Len(BetweenSeparator), b - 1))
    /\ NoApostrophe(SubSeq(input, b + Len(AndSeparator), c - 1))

\* the text between the delimiting apostrophes of a caption of that form
CaptionNames(a, b, c) ==
    <<SubSeq(input, Len(RelationshipPrefix) + 1, a - 1),
      SubSeq(input, a + Len(BetweenSeparator), b - 1),
      SubSeq(input, b + Len(AndSeparator), c - 1)>>

Positions == 1..(Len(input) + 1)

\* the input lacks the prefix, a separator, or an apostrophe after the
\* ' and ' separator
CaptionLacksPiece ==
    \/ ~OccursAt(RelationshipPrefix, 1)
    \/ \A a \in Positions : ~OccursAt(BetweenSeparator, a)
    \/ \A b \in Positions : ~OccursAt(AndSeparator, b)
    \/ \A b \in Positions :
           OccursAt(AndSeparator, b) =>
               \A c \in Positions :
                   ~(c >= b + Len(AndSeparator) /\ OccursAt(Apostrophe, c))

\* C14: on Relationship '<name>' between '<from>' and '<to>'
\* parse_relationship returns (name, from, to), each the text between its
\* delimiting apostrophes; on every input that lacks the prefix, the
\* ' between ' separator, the ' and ' separator or a closing apostrophe it
\* returns an error value; it never panics.
C14_CaptionPattern ==
    decoder = "parse_relationship" =>
        /\ ~IsPanic(result)
        /\ OccursAt(RelationshipPrefix, 1) =>
               \A a \in Positions :
                   OccursAt(BetweenSeparator, a) =>
                       \A b \in Positions :
                           OccursAt(AndSeparator, b) =>
                               \A c \in Positions :
                                   CaptionForm(a, b, c) =>
                                       /\ result.ok
                                       /\ result.val = CaptionNames(a, b, c)
        /\ CaptionLacksPiece => IsErr(result)

C14_Witness ==
    /\ decoder = "parse_relationship"
    /\ input = CaptionOk
    /\ result.ok
    /\ result.val = <<<<70, 75, 95, 65, 95, 66>>, <<65>>, <<66>>>>
    /\ result.rest = Apostrophe

\* the caption without the ' and ' separator is refused with an error
C14_WitnessRefused ==
    /\ decoder = "parse_relationship"
    /\ input = CaptionNoAnd
    /\ result.err = "Error(Tag)"

====

